---- MODULE Spec2Model ----
(***************************************************************************)
(* The rules engine of the Wizard card game (src/game_logic.py) and the    *)
(* way the Streamlit front end (src/app.py) drives it.                     *)
(*                                                                         *)
(* The GameState aggregate is one record, gs; every engine function is an  *)
(* operator from a GameState record (and the caller's arguments) to the    *)
(* new GameState record, as in the source.  An Optional[T] field is the    *)
(* empty sequence (None) or a one-element sequence <<x>>.                  *)
(***************************************************************************)
EXTENDS Integers, Sequences, FiniteSets, TLC

VARIABLES gs, lastOp, sessions, store

vars == <<gs, lastOp, sessions, store>>

-----------------------------------------------------------------------------
(* Bounds of the model *)

\* Seats used by the front-end specification (the engine allows up to 6).
MaxPlayers == 3
\* Rounds played by the front-end specification before it stops advancing.
MaxRound == 2
\* Number of shuffles (entries of SeedList) the front-end specification draws from.
NumSeeds == 10
\* Seats of the one-trick specification.
MaxTrickPlayers == 4
\* Ranks 1..TrickRanks of every ordinary suit are in hands of the one-trick specification.
TrickRanks == 2
\* Round numbers 1..MaxBidRound of the bidding specification.
MaxBidRound == 6
\* Multipliers a (the first NumStrides entries of StrideList) of the shuffles
\* the dealing specification draws from.
NumStrides == 2
\* Seats, round numbers and calls of the specification of unchecked engine calls.
MaxRawPlayers == 3
MaxRawRound == 3
MaxRawCalls == 5
\* Trump choice by unchecked calls: seats and rounds.
MaxChoosePlayers == 3
MaxChooseRound == 2
\* Card play by unchecked calls: seats, rounds, shuffles, and the plays
\* made into a trick that is already complete.
MaxRawPlayPlayers == 3
MaxRawPlayRound == 2
NumRawPlaySeeds == 4
MaxLatePlays == 1
\* Calls on a finished game: seats, and calls that write the state.
MaxOverPlayers == 3
MaxOverCalls == 2
\* Leaving and rejoining: seats, rounds, and calls that write the state.
MaxSeatPlayers == 3
MaxSeatRound == 2
MaxSeatCalls == 4
\* Snapshots: seats of a waiting game, chat messages kept in a state.
MaxSnapPlayers == 3
MaxChat == 1
\* Concurrent sessions on one stored game: seats and rounds.
MaxDbPlayers == 3
MaxDbRound == 2
\* Following suit: the cards of a hand, the ranks of a suit in the hands.
MaxFollowRound == 3
FollowRanks == 2
\* start_next_trick called again after the round is scored: how often.
MaxLateTricks == 2
\* Seats taken and given up: the calls that write the state of one game.
MaxMemberCalls == 2
\* The file of the local store: the seats of a game that is saved.
MaxFilePlayers == 3

-----------------------------------------------------------------------------
(* Optional values *)

None == << >>
Some(x) == <<x>>
IsNone(o) == o = << >>
IsSome(o) == o # << >>
Val(o) == o[1]

Min(a, b) == IF a <= b THEN a ELSE b
Abs(x) == IF x < 0 THEN -x ELSE x

RECURSIVE SumSeq(_)
SumSeq(s) == IF s = << >> THEN 0 ELSE Head(s) + SumSeq(Tail(s))

-----------------------------------------------------------------------------
(* Suit, GamePhase, Card *)

HEARTS == "HEARTS"
DIAMONDS == "DIAMONDS"
CLUBS == "CLUBS"
SPADES == "SPADES"
WIZARD == "WIZARD"
JESTER == "JESTER"

OrdinarySuits == <<HEARTS, DIAMONDS, CLUBS, SPADES>>
Suit == {HEARTS, DIAMONDS, CLUBS, SPADES, WIZARD, JESTER}

WAITING_FOR_PLAYERS == "waiting_for_players"
CHOOSING_TRUMP == "choosing_trump"
BIDDING == "bidding"
PLAYING == "playing"
TRICK_COMPLETE == "trick_complete"
ROUND_COMPLETE == "round_complete"
GAME_OVER == "game_over"

Card(s, v) == [suit |-> s, value |-> v]

IsSpecial(c) == c.suit \in {WIZARD, JESTER}

\* Card.sort_key: (suit_order, -value), compared lexicographically.
suit_order(s) ==
    CASE s = WIZARD -> 0
      [] s = SPADES -> 1
      [] s = HEARTS -> 2
      [] s = DIAMONDS -> 3
      [] s = CLUBS -> 4
      [] s = JESTER -> 5
      [] OTHER -> 6

sort_key_less(c, d) ==
    \/ suit_order(c.suit) < suit_order(d.suit)
    \/ suit_order(c.suit) = suit_order(d.suit) /\ (0 - c.value) < (0 - d.value)

\* list.sort(key=sort_key): a stable sort; insertion after the last element
\* that is not greater keeps equal keys in their order.
RECURSIVE InsertSorted(_, _)
InsertSorted(s, c) ==
    IF s = << >> THEN <<c>>
    ELSE IF sort_key_less(c, Head(s)) THEN <<c>> \o s
    ELSE <<Head(s)>> \o InsertSorted(Tail(s), c)

RECURSIVE SortHand(_)
SortHand(h) ==
    IF h = << >> THEN << >>
    ELSE InsertSorted(SortHand(SubSeq(h, 1, Len(h) - 1)), h[Len(h)])

-----------------------------------------------------------------------------
(* Deck *)

WizardValue == 14
JesterValue == 0
NumWizards == 4
NumJesters == 4
MaxValue == 13

\* Mutant of create_deck: the ranks of a suit counted from 0.
create_deck_FromZero ==
    [i \in 1..NumWizards |-> Card(WIZARD, WizardValue)]
    \o [i \in 1..NumJesters |-> Card(JESTER, JesterValue)]
    \o [i \in 1..(Len(OrdinarySuits) * MaxValue) |->
            Card(OrdinarySuits[((i - 1) \div MaxValue) + 1], (i - 1) % MaxValue)]

create_deck ==
    [i \in 1..NumWizards |-> Card(WIZARD, WizardValue)]
    \o [i \in 1..NumJesters |-> Card(JESTER, JesterValue)]
    \o [i \in 1..(Len(OrdinarySuits) * MaxValue) |->
            Card(OrdinarySuits[((i - 1) \div MaxValue) + 1], ((i - 1) % MaxValue) + 1)]

DeckSize == Len(create_deck)

\* shuffle_deck(deck): random.shuffle yields some permutation of the deck.
\* The random outcome is named by seed = <<a, b>>, a coprime to len(deck):
\* position i of the result holds card (a*(i-1) + b) mod len(deck) of the deck.
StrideList == <<1, 13, 7, 11, 17, 19, 23, 29>>

shuffle_deck(deck, seed) ==
    [i \in 1..Len(deck) |-> deck[((seed[1] * (i - 1) + seed[2]) % Len(deck)) + 1]]

\* Number of times card c occurs in sequence s.
Count(s, c) == Cardinality({i \in 1..Len(s) : s[i] = c})

Reverse(s) == [i \in 1..Len(s) |-> s[Len(s) + 1 - i]]

\* s without the first occurrence of card c.
RemoveFirst(s, c) ==
    LET hits == {i \in 1..Len(s) : s[i] = c}
        k == CHOOSE i \in hits : \A j \in hits : i <= j
    IN IF hits = {} THEN s ELSE SubSeq(s, 1, k - 1) \o SubSeq(s, k + 1, Len(s))

RECURSIVE RemoveAll(_, _)
RemoveAll(s, cs) ==
    IF cs = << >> THEN s ELSE RemoveAll(RemoveFirst(s, Head(cs)), Tail(cs))

\* Another family of outcomes of shuffle_deck: the permutation that leaves the
\* cards of top on top of the deck (top[1] is popped first) and the other
\* cards below them.  A permutation of deck when top is a sub-multiset of it.
IsSubDeck(top, deck) == \A i \in 1..Len(top) : Count(top, top[i]) <= Count(deck, top[i])
stacked_deck(deck, top) == RemoveAll(deck, top) \o Reverse(top)

-----------------------------------------------------------------------------
(* Player and GameState *)

\* Player(player_id, name): the dataclass defaults.
Player(pid, nm) ==
    [player_id |-> pid, name |-> nm, hand |-> << >>, bid |-> None,
     tricks_won |-> 0, score |-> 0, is_ready |-> FALSE, is_connected |-> TRUE]

PlayedCard(pid, c) == [player_id |-> pid, card |-> c]

\* GameState(game_id, host_id, last_updated): the dataclass defaults.
GameState(gid, hid, now) ==
    [game_id |-> gid, host_id |-> hid, players |-> << >>,
     phase |-> WAITING_FOR_PLAYERS, current_round |-> 1, current_trick |-> 1,
     current_player_index |-> 0, dealer_index |-> 0,
     trump_card |-> None, trump_suit |-> None, lead_suit |-> None,
     current_trick_cards |-> << >>, trick_winner |-> None, deck |-> << >>,
     last_updated |-> now, message |-> <<"">>, chat_messages |-> << >>]

\* len(players); list indices are 0-based in the source, sequences 1-based here.
NumPlayers(g) == Len(g.players)
PlayerAt(g, i) == g.players[i + 1]

\* GameState.max_rounds
max_rounds(g) == IF NumPlayers(g) = 0 THEN 0 ELSE DeckSize \div NumPlayers(g)

\* GameState.cards_this_round
cards_this_round(g) == g.current_round

\* GameState.current_player: None when the index is out of range.
HasCurrentPlayer(g) == NumPlayers(g) > 0 /\ g.current_player_index < NumPlayers(g)
current_player(g) == PlayerAt(g, g.current_player_index)

\* GameState.get_player: the 1-based position of the first seat with this
\* identifier, 0 when there is none.
get_player(g, pid) ==
    LET hits == {i \in 1..NumPlayers(g) : g.players[i].player_id = pid}
    IN IF hits = {} THEN 0 ELSE CHOOSE i \in hits : \A j \in hits : i <= j

\* datetime.now(): a later instant than the one recorded.
Now(g) == g.last_updated + 1
Touch(g) == [g EXCEPT !.last_updated = Now(g)]

-----------------------------------------------------------------------------
(* Dealing *)

\* The dealing loop: card number j (0-based, in popping order) is popped from
\* the end of the deck and goes to seat j mod n, while cards remain.
NumDealt(g) == Min(cards_this_round(g) * NumPlayers(g), DeckSize)

\* Mutant of DealtHand: the deal in blocks of one card per pass that start one
\* card, not n cards, after the previous pass.
DealtHand_Overlap(deck, n, k, seat) ==
    LET cnt == Cardinality({j \in 0..(k - 1) : j % n = seat})
    IN [p \in 1..cnt |-> deck[Len(deck) - ((p - 1) + seat)]]

DealtHand(deck, n, k, seat) ==
    LET cnt == Cardinality({j \in 0..(k - 1) : j % n = seat})
    IN [p \in 1..cnt |-> deck[Len(deck) - ((p - 1) * n + seat)]]

\* Mutants of deal_and_flip: a flipped Jester's suit taken as the trump suit;
\* the trump card and suit of the previous round kept when no card is left.
deal_and_flip_JesterTrump(g, shuffled) ==
    LET n == NumPlayers(g)
        k == NumDealt(g)
        dealt == [i \in 1..n |->
                    [g.players[i] EXCEPT
                        !.hand = SortHand(DealtHand(shuffled, n, k, i - 1)),
                        !.bid = None,
                        !.tricks_won = 0]]
        rest == SubSeq(shuffled, 1, Len(shuffled) - k)
        g1 == [g EXCEPT !.players = dealt, !.deck = rest]
        flip == rest[Len(rest)]
    IN IF rest # << >>
       THEN LET g2a == [g1 EXCEPT !.deck = SubSeq(rest, 1, Len(rest) - 1),
                                  !.trump_card = Some(flip)]
            IN IF flip.suit = WIZARD
               THEN [g2a EXCEPT !.trump_suit = None,
                                !.phase = CHOOSING_TRUMP,
                                !.message = <<"Wizard flipped! must choose trump suit.",
                                              PlayerAt(g, g.dealer_index).name>>]
               ELSE [g2a EXCEPT !.trump_suit = Some(flip.suit)]
       ELSE [g1 EXCEPT !.trump_card = None, !.trump_suit = None]

deal_and_flip_Stale(g, shuffled) ==
    LET n == NumPlayers(g)
        k == NumDealt(g)
        dealt == [i \in 1..n |->
                    [g.players[i] EXCEPT
                        !.hand = SortHand(DealtHand(shuffled, n, k, i - 1)),
                        !.bid = None,
                        !.tricks_won = 0]]
        rest == SubSeq(shuffled, 1, Len(shuffled) - k)
        g1 == [g EXCEPT !.players = dealt, !.deck = rest]
        flip == rest[Len(rest)]
    IN IF rest # << >>
       THEN LET g2a == [g1 EXCEPT !.deck = SubSeq(rest, 1, Len(rest) - 1),
                                  !.trump_card = Some(flip)]
            IN IF flip.suit = WIZARD
               THEN [g2a EXCEPT !.trump_suit = None,
                                !.phase = CHOOSING_TRUMP,
                                !.message = <<"Wizard flipped! must choose trump suit.",
                                              PlayerAt(g, g.dealer_index).name>>]
               ELSE IF flip.suit = JESTER
               THEN [g2a EXCEPT !.trump_suit = None]
               ELSE [g2a EXCEPT !.trump_suit = Some(flip.suit)]
       ELSE g1

\* deal_cards up to the flip of the trump card; shuffled is the outcome of
\* shuffle_deck(create_deck()).
deal_and_flip(g, shuffled) ==
    LET n == NumPlayers(g)
        k == NumDealt(g)
        dealt == [i \in 1..n |->
                    [g.players[i] EXCEPT
                        !.hand = SortHand(DealtHand(shuffled, n, k, i - 1)),
                        !.bid = None,
                        !.tricks_won = 0]]
        rest == SubSeq(shuffled, 1, Len(shuffled) - k)
        g1 == [g EXCEPT !.players = dealt, !.deck = rest]
        flip == rest[Len(rest)]
    IN IF rest # << >>
       THEN LET g2a == [g1 EXCEPT !.deck = SubSeq(rest, 1, Len(rest) - 1),
                                  !.trump_card = Some(flip)]
            IN IF flip.suit = WIZARD
               THEN [g2a EXCEPT !.trump_suit = None,
                                !.phase = CHOOSING_TRUMP,
                                !.message = <<"Wizard flipped! must choose trump suit.",
                                              PlayerAt(g, g.dealer_index).name>>]
               ELSE IF flip.suit = JESTER
               THEN [g2a EXCEPT !.trump_suit = None]
               ELSE [g2a EXCEPT !.trump_suit = Some(flip.suit)]
       ELSE [g1 EXCEPT !.trump_card = None, !.trump_suit = None]

\* Mutant of deal_cards: the dealer, not the seat after the dealer, bids first.
deal_cards_DealerFirst(g, shuffled) ==
    [deal_and_flip(g, shuffled) EXCEPT
        !.current_player_index = g.dealer_index % NumPlayers(g),
        !.current_trick = 1,
        !.current_trick_cards = << >>,
        !.lead_suit = None]

\* deal_cards(game_state); shuffled is the outcome of shuffle_deck(create_deck()).
deal_cards(g, shuffled) ==
    [deal_and_flip(g, shuffled) EXCEPT
        !.current_player_index = (g.dealer_index + 1) % NumPlayers(g),
        !.current_trick = 1,
        !.current_trick_cards = << >>,
        !.lead_suit = None]

-----------------------------------------------------------------------------
(* Bidding *)

NoForbiddenBid == -1

\* Mutant of get_forbidden_bid: the difference returned without the range check.
get_forbidden_bid_NoRange(g) ==
    LET dealer == PlayerAt(g, g.dealer_index)
        others == SelectSeq(g.players, LAMBDA p : p.player_id # dealer.player_id)
        other_bids == [i \in 1..Len(others) |-> others[i].bid]
        total_bid == SumSeq([i \in 1..Len(other_bids) |-> Val(other_bids[i])])
    IN IF ~HasCurrentPlayer(g) \/ current_player(g).player_id # dealer.player_id
       THEN NoForbiddenBid
       ELSE IF \E i \in 1..Len(other_bids) : IsNone(other_bids[i])
       THEN NoForbiddenBid
       ELSE cards_this_round(g) - total_bid

\* get_forbidden_bid(game_state)
get_forbidden_bid(g) ==
    LET dealer == PlayerAt(g, g.dealer_index)
        others == SelectSeq(g.players, LAMBDA p : p.player_id # dealer.player_id)
        other_bids == [i \in 1..Len(others) |-> others[i].bid]
        total_bid == SumSeq([i \in 1..Len(other_bids) |-> Val(other_bids[i])])
        tricks_available == cards_this_round(g)
        forbidden == tricks_available - total_bid
    IN IF ~HasCurrentPlayer(g) \/ current_player(g).player_id # dealer.player_id
       THEN NoForbiddenBid
       ELSE IF \E i \in 1..Len(other_bids) : IsNone(other_bids[i])
       THEN NoForbiddenBid
       ELSE IF 0 <= forbidden /\ forbidden <= tricks_available
       THEN forbidden
       ELSE NoForbiddenBid

\* Mutant of valid_bids: every bid offered, the forbidden one included.
valid_bids_All(g) == 0..cards_this_round(g)

\* render_bidding_phase: the bids the select box offers to the current actor.
valid_bids(g) == {b \in 0..cards_this_round(g) : b # get_forbidden_bid(g)}

\* Mutant of choose_trump: the choice accepted from any caller.
choose_trump_AnyActor(g, pid, suit) ==
    LET dealer == PlayerAt(g, g.dealer_index)
    IN IF g.phase # CHOOSING_TRUMP THEN g
       ELSE [g EXCEPT !.trump_suit = Some(suit),
                      !.phase = BIDDING,
                      !.message = <<"chose trump; turn to bid", dealer.name, suit,
                                    current_player(g).name>>,
                      !.last_updated = Now(g)]

\* choose_trump(game_state, player_id, suit)
choose_trump(g, pid, suit) ==
    LET dealer == PlayerAt(g, g.dealer_index)
    IN IF pid # dealer.player_id THEN g
       ELSE IF g.phase # CHOOSING_TRUMP THEN g
       ELSE [g EXCEPT !.trump_suit = Some(suit),
                      !.phase = BIDDING,
                      !.message = <<"chose trump; turn to bid", dealer.name, suit,
                                    current_player(g).name>>,
                      !.last_updated = Now(g)]

\* Mutant of place_bid: the turn not passed on after a bid.
place_bid_NoAdvance(g, pid, bid) ==
    LET i == get_player(g, pid)
        g1 == [g EXCEPT !.players[i].bid = Some(bid)]
        g2 == IF \A j \in 1..NumPlayers(g1) : IsSome(g1.players[j].bid)
              THEN LET g2a == [g1 EXCEPT !.phase = PLAYING,
                                         !.current_player_index =
                                             (g.dealer_index + 1) % NumPlayers(g)]
                   IN [g2a EXCEPT !.message =
                          <<"Bidding complete! turn to lead.", current_player(g2a).name>>]
              ELSE [g1 EXCEPT !.message =
                          <<"Waiting for bid.", current_player(g1).name>>]
    IN IF i = 0 THEN g ELSE Touch(g2)

\* place_bid(game_state, player_id, bid)
place_bid(g, pid, bid) ==
    LET i == get_player(g, pid)
        g1 == [g EXCEPT !.players[i].bid = Some(bid),
                        !.current_player_index =
                            (g.current_player_index + 1) % NumPlayers(g)]
        g2 == IF \A j \in 1..NumPlayers(g1) : IsSome(g1.players[j].bid)
              THEN LET g2a == [g1 EXCEPT !.phase = PLAYING,
                                         !.current_player_index =
                                             (g.dealer_index + 1) % NumPlayers(g)]
                   IN [g2a EXCEPT !.message =
                          <<"Bidding complete! turn to lead.", current_player(g2a).name>>]
              ELSE [g1 EXCEPT !.message =
                          <<"Waiting for bid.", current_player(g1).name>>]
    IN IF i = 0 THEN g ELSE Touch(g2)

-----------------------------------------------------------------------------
(* Trick play *)

SameCard(c, d) == c.suit = d.suit /\ c.value = d.value

\* Mutant of get_valid_cards: Wizards and Jesters are not offered when the
\* hand can follow suit.
get_valid_cards_FollowOnly(player, lead_suit) ==
    LET matching_cards == SelectSeq(player.hand, LAMBDA c : c.suit = Val(lead_suit))
    IN IF IsNone(lead_suit) THEN player.hand
       ELSE IF matching_cards # << >> THEN matching_cards
       ELSE player.hand

\* get_valid_cards(player, lead_suit)
get_valid_cards(player, lead_suit) ==
    LET special_cards == SelectSeq(player.hand, IsSpecial)
        matching_cards == SelectSeq(player.hand, LAMBDA c : c.suit = Val(lead_suit))
    IN IF IsNone(lead_suit) THEN player.hand
       ELSE IF matching_cards # << >> THEN matching_cards \o special_cards
       ELSE player.hand

\* Mutants of BeatsWinning: the trump rule dropped; the higher value winning
\* whatever the suits are.
BeatsWinning_NoTrump(card, winning_card, lead, trump) ==
    LET current_follows_lead == IsSome(lead) /\ card.suit = Val(lead)
        winning_follows_lead == IsSome(lead) /\ winning_card.suit = Val(lead)
    IN IF current_follows_lead /\ winning_follows_lead
       THEN card.value > winning_card.value
       ELSE current_follows_lead /\ ~winning_follows_lead

BeatsWinning_AnyHigher(card, winning_card, lead, trump) ==
    LET current_is_trump == IsSome(trump) /\ card.suit = Val(trump)
        winning_is_trump == IsSome(trump) /\ winning_card.suit = Val(trump)
    IN IF current_is_trump /\ ~winning_is_trump THEN TRUE
       ELSE IF winning_is_trump /\ ~current_is_trump THEN FALSE
       ELSE card.value > winning_card.value

\* The scan of determine_trick_winner over the play list from position i on;
\* win is the position of winning_played (0: None), lead the local lead_suit.
BeatsWinning(card, winning_card, lead, trump) ==
    LET current_is_trump == IsSome(trump) /\ card.suit = Val(trump)
        winning_is_trump == IsSome(trump) /\ winning_card.suit = Val(trump)
        current_follows_lead == IsSome(lead) /\ card.suit = Val(lead)
        winning_follows_lead == IsSome(lead) /\ winning_card.suit = Val(lead)
    IN IF current_is_trump /\ ~winning_is_trump THEN TRUE
       ELSE IF winning_is_trump /\ ~current_is_trump THEN FALSE
       ELSE IF current_is_trump /\ winning_is_trump
       THEN card.value > winning_card.value
       ELSE IF current_follows_lead /\ winning_follows_lead
       THEN card.value > winning_card.value
       ELSE IF current_follows_lead /\ ~winning_follows_lead THEN TRUE
       ELSE FALSE

RECURSIVE ScanTrick(_, _, _, _, _)
ScanTrick(cards, i, win, lead, trump) ==
    IF i > Len(cards) THEN win
    ELSE LET card == cards[i].card
         IN IF card.suit = JESTER THEN ScanTrick(cards, i + 1, win, lead, trump)
            ELSE IF win = 0
            THEN ScanTrick(cards, i + 1, i,
                           IF IsNone(lead) /\ ~IsSpecial(card) THEN Some(card.suit) ELSE lead,
                           trump)
            ELSE IF BeatsWinning(card, cards[win].card, lead, trump)
            THEN ScanTrick(cards, i + 1, i, lead, trump)
            ELSE ScanTrick(cards, i + 1, win, lead, trump)

\* Mutants of determine_trick_winner: the last Wizard winning instead of the
\* first; the last player winning a trick of Jesters instead of the first.
determine_trick_winner_LastWizard(g) ==
    LET cards == g.current_trick_cards
        wizards == {i \in 1..Len(cards) : cards[i].card.suit = WIZARD}
        win == ScanTrick(cards, 1, 0, g.lead_suit, g.trump_suit)
    IN IF wizards # {}
       THEN cards[CHOOSE i \in wizards : \A j \in wizards : i >= j].player_id
       ELSE IF \A i \in 1..Len(cards) : cards[i].card.suit = JESTER
       THEN cards[1].player_id
       ELSE IF win # 0 THEN cards[win].player_id ELSE cards[1].player_id

determine_trick_winner_LastJester(g) ==
    LET cards == g.current_trick_cards
        wizards == {i \in 1..Len(cards) : cards[i].card.suit = WIZARD}
        win == ScanTrick(cards, 1, 0, g.lead_suit, g.trump_suit)
    IN IF wizards # {}
       THEN cards[CHOOSE i \in wizards : \A j \in wizards : i <= j].player_id
       ELSE IF \A i \in 1..Len(cards) : cards[i].card.suit = JESTER
       THEN cards[Len(cards)].player_id
       ELSE IF win # 0 THEN cards[win].player_id ELSE cards[1].player_id

\* determine_trick_winner(game_state): the winner's player_id.
determine_trick_winner(g) ==
    LET cards == g.current_trick_cards
        wizards == {i \in 1..Len(cards) : cards[i].card.suit = WIZARD}
        win == ScanTrick(cards, 1, 0, g.lead_suit, g.trump_suit)
    IN IF wizards # {}
       THEN cards[CHOOSE i \in wizards : \A j \in wizards : i <= j].player_id
       ELSE IF \A i \in 1..Len(cards) : cards[i].card.suit = JESTER
       THEN cards[1].player_id
       ELSE IF win # 0 THEN cards[win].player_id ELSE cards[1].player_id

\* Mutant of play_card: every card of a suit sets the lead suit.
play_card_LastLeads(g, pid, card) ==
    LET i == get_player(g, pid)
        kept == SelectSeq(g.players[i].hand, LAMBDA c : ~SameCard(c, card))
        lead == IF ~IsSpecial(card) THEN Some(card.suit)
                ELSE IF g.current_trick_cards = << >> THEN None
                ELSE g.lead_suit
        g1 == [g EXCEPT !.players[i].hand = kept,
                        !.lead_suit = lead,
                        !.current_trick_cards = Append(@, PlayedCard(pid, card))]
        winner_id == determine_trick_winner(g1)
        w == get_player(g1, winner_id)
        g2 == IF Len(g1.current_trick_cards) = NumPlayers(g1)
              THEN [g1 EXCEPT !.players[w].tricks_won = @ + 1,
                              !.trick_winner = Some(winner_id),
                              !.phase = TRICK_COMPLETE,
                              !.message = <<"wins the trick!", g1.players[w].name>>]
              ELSE LET g2a == [g1 EXCEPT !.current_player_index =
                                            (g.current_player_index + 1) % NumPlayers(g)]
                   IN [g2a EXCEPT !.message = <<"turn to play.", current_player(g2a).name>>]
    IN IF i = 0 THEN g ELSE Touch(g2)

\* Mutant of play_card: the turn stays with the player who has played.
play_card_NoTurn(g, pid, card) ==
    LET i == get_player(g, pid)
        kept == SelectSeq(g.players[i].hand, LAMBDA c : ~SameCard(c, card))
        lead == IF g.current_trick_cards = << >>
                THEN (IF ~IsSpecial(card) THEN Some(card.suit) ELSE None)
                ELSE IF IsNone(g.lead_suit) /\ ~IsSpecial(card) THEN Some(card.suit)
                ELSE g.lead_suit
        g1 == [g EXCEPT !.players[i].hand = kept,
                        !.lead_suit = lead,
                        !.current_trick_cards = Append(@, PlayedCard(pid, card))]
        winner_id == determine_trick_winner(g1)
        w == get_player(g1, winner_id)
        g2 == IF Len(g1.current_trick_cards) = NumPlayers(g1)
              THEN [g1 EXCEPT !.players[w].tricks_won = @ + 1,
                              !.trick_winner = Some(winner_id),
                              !.phase = TRICK_COMPLETE,
                              !.message = <<"wins the trick!", g1.players[w].name>>]
              ELSE [g1 EXCEPT !.message = <<"turn to play.", current_player(g1).name>>]
    IN IF i = 0 THEN g ELSE Touch(g2)

\* play_card(game_state, player_id, card)
play_card(g, pid, card) ==
    LET i == get_player(g, pid)
        kept == SelectSeq(g.players[i].hand, LAMBDA c : ~SameCard(c, card))
        lead == IF g.current_trick_cards = << >>
                THEN (IF ~IsSpecial(card) THEN Some(card.suit) ELSE None)
                ELSE IF IsNone(g.lead_suit) /\ ~IsSpecial(card) THEN Some(card.suit)
                ELSE g.lead_suit
        g1 == [g EXCEPT !.players[i].hand = kept,
                        !.lead_suit = lead,
                        !.current_trick_cards = Append(@, PlayedCard(pid, card))]
        winner_id == determine_trick_winner(g1)
        w == get_player(g1, winner_id)
        g2 == IF Len(g1.current_trick_cards) = NumPlayers(g1)
              THEN [g1 EXCEPT !.players[w].tricks_won = @ + 1,
                              !.trick_winner = Some(winner_id),
                              !.phase = TRICK_COMPLETE,
                              !.message = <<"wins the trick!", g1.players[w].name>>]
              ELSE LET g2a == [g1 EXCEPT !.current_player_index =
                                            (g.current_player_index + 1) % NumPlayers(g)]
                   IN [g2a EXCEPT !.message = <<"turn to play.", current_player(g2a).name>>]
    IN IF i = 0 THEN g ELSE Touch(g2)

\* play_card raises AttributeError (winner.tricks_won on None) when the card
\* completes the trick and the identifier under which the winning card was
\* played names no seat any more; the caller then saves nothing.
play_card_raises(g, pid, card) ==
    LET lead == IF g.current_trick_cards = << >>
                THEN (IF ~IsSpecial(card) THEN Some(card.suit) ELSE None)
                ELSE IF IsNone(g.lead_suit) /\ ~IsSpecial(card) THEN Some(card.suit)
                ELSE g.lead_suit
        g1 == [g EXCEPT !.lead_suit = lead,
                        !.current_trick_cards = Append(@, PlayedCard(pid, card))]
    IN /\ get_player(g, pid) # 0
       /\ Len(g1.current_trick_cards) = NumPlayers(g1)
       /\ get_player(g1, determine_trick_winner(g1)) = 0

-----------------------------------------------------------------------------
(* Tricks, rounds, scores *)

\* Mutant of round_score: the penalty of a missed bid without the absolute value.
round_score_NoAbs(bid, tricks_won) ==
    IF bid = tricks_won THEN 20 + (10 * tricks_won)
    ELSE 0 - 10 * (bid - tricks_won)

\* The change of one player's score in calculate_round_scores.
round_score(bid, tricks_won) ==
    IF bid = tricks_won THEN 20 + (10 * tricks_won)
    ELSE 0 - 10 * Abs(bid - tricks_won)

\* calculate_round_scores(game_state)
calculate_round_scores(g) ==
    [g EXCEPT !.players = [i \in 1..NumPlayers(g) |->
                              [g.players[i] EXCEPT !.score =
                                  @ + round_score(Val(g.players[i].bid),
                                                  g.players[i].tricks_won)]],
              !.message = <<"Round complete!">>]

\* Mutants of start_next_trick: the round ended when the trick counter
\* reaches, not exceeds, the cards of the round; the turn left where it was
\* instead of given to the winner of the trick.
start_next_trick_EarlyEnd(g) ==
    LET g1 == [g EXCEPT !.current_trick_cards = << >>,
                        !.lead_suit = None,
                        !.current_trick = @ + 1]
        winner_index == get_player(g1, Val(g1.trick_winner)) - 1
        g2 == IF g1.current_trick >= cards_this_round(g1)
              THEN [calculate_round_scores(g1) EXCEPT !.phase = ROUND_COMPLETE]
              ELSE LET g2a == [g1 EXCEPT !.current_player_index = winner_index,
                                         !.phase = PLAYING,
                                         !.trick_winner = None]
                   IN [g2a EXCEPT !.message =
                          <<"Trick. leads.", g2a.current_trick, current_player(g2a).name>>]
    IN Touch(g2)

start_next_trick_KeepLeader(g) ==
    LET g1 == [g EXCEPT !.current_trick_cards = << >>,
                        !.lead_suit = None,
                        !.current_trick = @ + 1]
        g2 == IF g1.current_trick > cards_this_round(g1)
              THEN [calculate_round_scores(g1) EXCEPT !.phase = ROUND_COMPLETE]
              ELSE LET g2a == [g1 EXCEPT !.phase = PLAYING,
                                         !.trick_winner = None]
                   IN [g2a EXCEPT !.message =
                          <<"Trick. leads.", g2a.current_trick, current_player(g2a).name>>]
    IN Touch(g2)

\* start_next_trick(game_state)
start_next_trick(g) ==
    LET g1 == [g EXCEPT !.current_trick_cards = << >>,
                        !.lead_suit = None,
                        !.current_trick = @ + 1]
        winner_index == get_player(g1, Val(g1.trick_winner)) - 1
        g2 == IF g1.current_trick > cards_this_round(g1)
              THEN [calculate_round_scores(g1) EXCEPT !.phase = ROUND_COMPLETE]
              ELSE LET g2a == [g1 EXCEPT !.current_player_index = winner_index,
                                         !.phase = PLAYING,
                                         !.trick_winner = None]
                   IN [g2a EXCEPT !.message =
                          <<"Trick. leads.", g2a.current_trick, current_player(g2a).name>>]
    IN Touch(g2)

\* Mutant of start_next_round: the deal stays with the same seat.
start_next_round_SameDealer(g, shuffled) ==
    LET g1 == [g EXCEPT !.current_round = @ + 1]
        best == CHOOSE i \in 1..NumPlayers(g1) :
                    /\ \A j \in 1..NumPlayers(g1) :
                          g1.players[j].score <= g1.players[i].score
                    /\ \A j \in 1..(i - 1) : g1.players[j].score < g1.players[i].score
        g2 == IF g1.current_round > max_rounds(g1)
              THEN [g1 EXCEPT !.phase = GAME_OVER,
                              !.message = <<"Game Over! wins with points!",
                                            g1.players[best].name, g1.players[best].score>>]
              ELSE LET d == [deal_cards(g1, shuffled) EXCEPT !.phase = BIDDING]
                   IN [d EXCEPT !.message =
                          <<"Round. turn to bid.", d.current_round, current_player(d).name>>]
    IN Touch(g2)

\* Mutant of start_next_round: one more round dealt before the game ends.
start_next_round_OneMore(g, shuffled) ==
    LET g1 == [g EXCEPT !.current_round = @ + 1,
                        !.dealer_index = (@ + 1) % NumPlayers(g)]
        best == CHOOSE i \in 1..NumPlayers(g1) :
                    /\ \A j \in 1..NumPlayers(g1) :
                          g1.players[j].score <= g1.players[i].score
                    /\ \A j \in 1..(i - 1) : g1.players[j].score < g1.players[i].score
        g2 == IF g1.current_round > max_rounds(g1) + 1
              THEN [g1 EXCEPT !.phase = GAME_OVER,
                              !.message = <<"Game Over! wins with points!",
                                            g1.players[best].name, g1.players[best].score>>]
              ELSE LET d == [deal_cards(g1, shuffled) EXCEPT !.phase = BIDDING]
                   IN [d EXCEPT !.message =
                          <<"Round. turn to bid.", d.current_round, current_player(d).name>>]
    IN Touch(g2)

\* start_next_round(game_state); shuffled is the outcome of the deal's shuffle.
start_next_round(g, shuffled) ==
    LET g1 == [g EXCEPT !.current_round = @ + 1,
                        !.dealer_index = (@ + 1) % NumPlayers(g)]
        best == CHOOSE i \in 1..NumPlayers(g1) :
                    /\ \A j \in 1..NumPlayers(g1) :
                          g1.players[j].score <= g1.players[i].score
                    /\ \A j \in 1..(i - 1) : g1.players[j].score < g1.players[i].score
        g2 == IF g1.current_round > max_rounds(g1)
              THEN [g1 EXCEPT !.phase = GAME_OVER,
                              !.message = <<"Game Over! wins with points!",
                                            g1.players[best].name, g1.players[best].score>>]
              ELSE LET d == [deal_cards(g1, shuffled) EXCEPT !.phase = BIDDING]
                   IN [d EXCEPT !.message =
                          <<"Round. turn to bid.", d.current_round, current_player(d).name>>]
    IN Touch(g2)

-----------------------------------------------------------------------------
(* Membership *)

\* create_new_game(game_id, host_id, host_name)
create_new_game(gid, hid, hname, now) ==
    LET g == GameState(gid, hid, now)
    IN [g EXCEPT !.players = <<[Player(hid, hname) EXCEPT !.is_ready = TRUE]>>,
                 !.message = <<"Game created! Share code", gid>>]

MAX_SEATS == 6
MIN_SEATS == 2

\* Mutants of join_game: an identifier seated whether or not it has a seat;
\* no limit on the number of seats.
join_game_NoSeatCheck(g, pid, nm) ==
    IF g.phase # WAITING_FOR_PLAYERS THEN g
    ELSE IF NumPlayers(g) >= MAX_SEATS THEN g
    ELSE Touch([g EXCEPT !.players = Append(@, Player(pid, nm)),
                         !.message = <<"joined the game!", nm, NumPlayers(g) + 1>>])

join_game_NoCap(g, pid, nm) ==
    IF g.phase # WAITING_FOR_PLAYERS THEN g
    ELSE IF get_player(g, pid) # 0 THEN g
    ELSE Touch([g EXCEPT !.players = Append(@, Player(pid, nm)),
                         !.message = <<"joined the game!", nm, NumPlayers(g) + 1>>])

\* join_game(game_state, player_id, player_name)
join_game(g, pid, nm) ==
    IF g.phase # WAITING_FOR_PLAYERS THEN g
    ELSE IF NumPlayers(g) >= MAX_SEATS THEN g
    ELSE IF get_player(g, pid) # 0 THEN g
    ELSE Touch([g EXCEPT !.players = Append(@, Player(pid, nm)),
                         !.message = <<"joined the game!", nm, NumPlayers(g) + 1>>])

\* str.lower() on the display names that occur.
LowerTable ==
    [Ann |-> "ann", ANN |-> "ann", ann |-> "ann",
     Bob |-> "bob", BOB |-> "bob", bob |-> "bob",
     Cy |-> "cy", CY |-> "cy", cy |-> "cy",
     Dee |-> "dee", Eve |-> "eve", Fay |-> "fay",
     Zed |-> "zed", zed |-> "zed"]
Lower(nm) == LowerTable[nm]

\* Mutants of rejoin_game: a seated identifier not marked connected; the
\* names compared as they are written.
rejoin_game_NoReconnect(g, pid, nm) ==
    LET i == get_player(g, pid)
        hits == {j \in 1..NumPlayers(g) : Lower(g.players[j].name) = Lower(nm)}
    IN IF i # 0
       THEN <<Touch([g EXCEPT !.players[i].name = nm]), TRUE>>
       ELSE IF hits # {}
       THEN LET j == CHOOSE k \in hits : \A m \in hits : k <= m
                old_player_id == g.players[j].player_id
            IN <<Touch([g EXCEPT !.players[j].player_id = pid,
                                 !.players[j].is_connected = TRUE,
                                 !.host_id = IF @ = old_player_id THEN pid ELSE @,
                                 !.message = <<"has reconnected!", nm>>]), TRUE>>
       ELSE <<g, FALSE>>

rejoin_game_CaseSensitive(g, pid, nm) ==
    LET i == get_player(g, pid)
        hits == {j \in 1..NumPlayers(g) : g.players[j].name = nm}
    IN IF i # 0
       THEN <<Touch([g EXCEPT !.players[i].is_connected = TRUE,
                              !.players[i].name = nm]), TRUE>>
       ELSE IF hits # {}
       THEN LET j == CHOOSE k \in hits : \A m \in hits : k <= m
                old_player_id == g.players[j].player_id
            IN <<Touch([g EXCEPT !.players[j].player_id = pid,
                                 !.players[j].is_connected = TRUE,
                                 !.host_id = IF @ = old_player_id THEN pid ELSE @,
                                 !.message = <<"has reconnected!", nm>>]), TRUE>>
       ELSE <<g, FALSE>>

\* rejoin_game(game_state, player_id, player_name): <<game_state, success>>
rejoin_game(g, pid, nm) ==
    LET i == get_player(g, pid)
        hits == {j \in 1..NumPlayers(g) : Lower(g.players[j].name) = Lower(nm)}
    IN IF i # 0
       THEN <<Touch([g EXCEPT !.players[i].is_connected = TRUE,
                              !.players[i].name = nm]), TRUE>>
       ELSE IF hits # {}
       THEN LET j == CHOOSE k \in hits : \A m \in hits : k <= m
                old_player_id == g.players[j].player_id
            IN <<Touch([g EXCEPT !.players[j].player_id = pid,
                                 !.players[j].is_connected = TRUE,
                                 !.host_id = IF @ = old_player_id THEN pid ELSE @,
                                 !.message = <<"has reconnected!", nm>>]), TRUE>>
       ELSE <<g, FALSE>>

\* Mutant of leave_game: the seat of the leaver is given up.
leave_game_Remove(g, pid) ==
    LET i == get_player(g, pid)
        g1 == [g EXCEPT !.players = SubSeq(@, 1, i - 1) \o SubSeq(@, i + 1, Len(@))]
    IN IF i = 0 THEN g
       ELSE Touch([g1 EXCEPT !.message = <<"has left the game!", g.players[i].name>>])

\* leave_game(game_state, player_id)
leave_game(g, pid) ==
    LET i == get_player(g, pid)
        g1 == [g EXCEPT !.players[i].is_connected = FALSE]
        connected_players == {j \in 1..NumPlayers(g1) :
                                 g1.players[j].is_connected /\ g1.players[j].player_id # pid}
        new_host == CHOOSE k \in connected_players : \A m \in connected_players : k <= m
        g2 == IF g1.host_id = pid /\ connected_players # {}
              THEN [g1 EXCEPT !.host_id = g1.players[new_host].player_id,
                              !.message = <<"has left! is now the host!",
                                            g1.players[i].name, g1.players[new_host].name>>]
              ELSE [g1 EXCEPT !.message = <<"has left the game!", g1.players[i].name>>]
    IN IF i = 0 THEN g ELSE Touch(g2)

\* ChatMessage(player_name, message, timestamp)
ChatMessage(nm, text, stamp) == [player_name |-> nm, message |-> text, timestamp |-> stamp]

\* str.strip() on the chat texts that occur.
Strip(text) ==
    CASE text = " hi " -> "hi"
      [] text = "gg " -> "gg"
      [] text = "  " -> ""
      [] OTHER -> text

CHAT_LIMIT == 50

\* datetime.now().strftime("%H:%M")
ChatTime == "12:00"

\* send_chat_message(game_state, player_id, message)
send_chat_message(g, pid, text) ==
    LET i == get_player(g, pid)
        chat_msg == ChatMessage(g.players[i].name, Strip(text), ChatTime)
        all == Append(g.chat_messages, chat_msg)
        kept == IF Len(all) > CHAT_LIMIT
                THEN SubSeq(all, Len(all) - CHAT_LIMIT + 1, Len(all)) ELSE all
    IN IF i = 0 \/ Strip(text) = "" THEN g
       ELSE Touch([g EXCEPT !.chat_messages = kept])

\* start_game(game_state); shuffled is the outcome of the deal's shuffle.
start_game(g, shuffled) ==
    IF NumPlayers(g) < MIN_SEATS
    THEN [g EXCEPT !.message = <<"Need at least 2 players to start!">>]
    ELSE LET d == [deal_cards(g, shuffled) EXCEPT !.phase = BIDDING]
         IN Touch([d EXCEPT !.message = <<"Round 1 begins! turn to bid.",
                                          current_player(d).name>>])

-----------------------------------------------------------------------------
(* The front end: every handler loads the game, calls one engine function   *)
(* and saves the result (src/app.py).                                       *)

IdList == <<"p1", "p2", "p3", "p4", "p5", "p6">>
NameList == <<"Ann", "Bob", "Cy", "Dee", "Eve", "Fay">>
PlayerIds == {IdList[i] : i \in 1..Min(MaxPlayers, Len(IdList))}
NameOf(pid) == NameList[CHOOSE i \in 1..Len(IdList) : IdList[i] = pid]

GameId == "GAME01"

\* The shuffles the front-end specification draws from: <<a, b>> of shuffle_deck.
SeedList ==
    << <<1, 6>>, <<1, 10>>, <<13, 33>>, <<1, 3>>, <<7, 0>>, <<1, 30>>,
       <<11, 30>>, <<17, 20>>, <<13, 21>>, <<7, 40>>, <<19, 5>>, <<23, 50>> >>
Seeds == {SeedList[i] : i \in 1..Min(NumSeeds, Len(SeedList))}

Init ==
    /\ gs = create_new_game(GameId, IdList[1], NameList[1], 0)
    /\ sessions = << >>
    /\ store = << >>
    /\ lastOp = <<"create_new_game">>

\* render_lobby: "Join Game" on a game that has not started.
JoinGame ==
    \E pid \in PlayerIds :
        /\ gs.phase = WAITING_FOR_PLAYERS
        /\ NumPlayers(gs) < MAX_SEATS
        /\ get_player(gs, pid) = 0
        /\ gs' = join_game(gs, pid, NameOf(pid))
        /\ UNCHANGED sessions
        /\ UNCHANGED store
        /\ lastOp' = <<"join_game", pid>>

\* render_waiting_room: "Start Game", offered to the host with two or more seats.
StartGame ==
    \E seed \in Seeds :
        /\ gs.phase = WAITING_FOR_PLAYERS
        /\ NumPlayers(gs) >= MIN_SEATS
        /\ gs' = start_game(gs, shuffle_deck(create_deck, seed))
        /\ UNCHANGED sessions
        /\ UNCHANGED store
        /\ lastOp' = <<"start_game", seed>>

\* render_bidding_phase: "Submit Bid", offered to the current player.
PlaceBid ==
    \E bid \in valid_bids(gs) :
        /\ gs.phase = BIDDING
        /\ gs' = place_bid(gs, current_player(gs).player_id, bid)
        /\ UNCHANGED sessions
        /\ UNCHANGED store
        /\ lastOp' = <<"place_bid", current_player(gs).player_id, bid>>

\* render_playing_phase: a card button, enabled for the valid cards of the
\* current player.
PlayCard ==
    /\ gs.phase = PLAYING
    /\ \E k \in 1..Len(current_player(gs).hand) :
          LET card == current_player(gs).hand[k]
              valid == get_valid_cards(current_player(gs), gs.lead_suit)
          IN /\ \E v \in 1..Len(valid) : valid[v] = card
             /\ gs' = play_card(gs, current_player(gs).player_id, card)
             /\ UNCHANGED sessions
             /\ UNCHANGED store
             /\ lastOp' = <<"play_card", current_player(gs).player_id, card>>

\* render_trick_complete: "Continue to Next Trick".
StartNextTrick ==
    /\ gs.phase = TRICK_COMPLETE
    /\ gs' = start_next_trick(gs)
    /\ UNCHANGED sessions
    /\ UNCHANGED store
    /\ lastOp' = <<"start_next_trick">>

\* render_round_complete: "Start Next Round", offered to the host.
StartNextRound ==
    \E seed \in Seeds :
        /\ gs.phase = ROUND_COMPLETE
        /\ gs.current_round < MaxRound
        /\ gs' = start_next_round(gs, shuffle_deck(create_deck, seed))
        /\ UNCHANGED sessions
        /\ UNCHANGED store
        /\ lastOp' = <<"start_next_round", seed>>

Next ==
    \/ JoinGame
    \/ StartGame
    \/ PlaceBid
    \/ PlayCard
    \/ StartNextTrick
    \/ StartNextRound

Spec == Init /\ [][Next]_vars

-----------------------------------------------------------------------------
(* Properties of the game as the front end drives it (checked under Spec) *)

\* The score change the rules give for one round.
ExpectedRoundScore(bid, won) ==
    IF bid = won THEN 20 + 10 * won
    ELSE IF bid > won THEN 0 - 10 * (bid - won) ELSE 0 - 10 * (won - bid)

\* C5: at the transition that completes a round, every player's cumulative
\* score changes by 20 + 10*tricks_won when bid = tricks_won and by
\* -10*|bid - tricks_won| otherwise, added to the previous cumulative score;
\* bid and tricks_won are left as they were.
C5_RoundScoring ==
    [][(gs.phase = TRICK_COMPLETE /\ gs'.phase = ROUND_COMPLETE) =>
          /\ NumPlayers(gs') = NumPlayers(gs)
          /\ \A i \in 1..NumPlayers(gs) :
                /\ gs'.players[i].bid = gs.players[i].bid
                /\ gs'.players[i].tricks_won = gs.players[i].tricks_won
                /\ Val(gs.players[i].bid) \in 0..cards_this_round(gs)
                /\ gs.players[i].tricks_won \in 0..cards_this_round(gs)
                /\ gs'.players[i].score =
                      gs.players[i].score
                      + ExpectedRoundScore(Val(gs.players[i].bid), gs.players[i].tricks_won)]_vars

\* The cumulative scores a player can have after round 1.
RoundOneScores == {ExpectedRoundScore(b, w) : b \in 0..1, w \in 0..1}

\* C5 witness: round 2 has just been scored; one player bid 2 and won 2
\* (+40 on the round-1 score), another bid 2 and won 0 (-20).
C5_Witness ==
    /\ gs.phase = ROUND_COMPLETE /\ gs.current_round = 2
    /\ sessions = << >>
    /\ store = << >>
    /\ lastOp = <<"start_next_trick">>
    /\ \E i, j \in 1..NumPlayers(gs) :
          /\ gs.players[i].bid = Some(2) /\ gs.players[i].tricks_won = 2
          /\ gs.players[i].score # 40
          /\ gs.players[i].score - 40 \in RoundOneScores
          /\ gs.players[j].bid = Some(2) /\ gs.players[j].tricks_won = 0
          /\ gs.players[j].score + 20 \in RoundOneScores

-----------------------------------------------------------------------------
(* One trick: every play list of a first round.  The game is created,      *)
(* joined, started and bid through the engine; the shuffle leaves the       *)
(* chosen one-card hands and the chosen trump card on top of the deck.      *)

TrickSuits == SubSeq(OrdinarySuits, 1, 3)

TrickCards ==
    {Card(WIZARD, WizardValue), Card(JESTER, JesterValue)}
    \cup {Card(TrickSuits[s], v) : s \in 1..Len(TrickSuits), v \in 1..Min(TrickRanks, MaxValue - 1)}

TrickFlips ==
    {Card(JESTER, JesterValue)} \cup {Card(TrickSuits[s], MaxValue) : s \in 1..Len(TrickSuits)}

RECURSIVE JoinAll(_, _)
JoinAll(g, n) ==
    IF NumPlayers(g) >= n THEN g
    ELSE JoinAll(join_game(g, IdList[NumPlayers(g) + 1], NameList[NumPlayers(g) + 1]), n)

\* Every seat in turn submits bid b(seat index); k bids are still to come.
RECURSIVE BidAll(_, _, _)
BidAll(g, b, k) ==
    IF k = 0 THEN g
    ELSE BidAll(place_bid(g, current_player(g).player_id, b[g.current_player_index + 1]),
                b, k - 1)

Seated(n) == JoinAll(create_new_game(GameId, IdList[1], NameList[1], 0), n)

InitTrick ==
    \E n \in 2..Min(MaxTrickPlayers, MAX_SEATS) :
      \E hands \in [1..n -> TrickCards] :
        \E flip \in TrickFlips :
            /\ IsSubDeck(hands \o <<flip>>, create_deck)
            /\ gs = BidAll(start_game(Seated(n), stacked_deck(create_deck, hands \o <<flip>>)),
                           [i \in 1..n |-> 0], n)
            /\ sessions = << >>
            /\ store = << >>
            /\ lastOp = <<"place_bid", IdList[1], 0>>

NextTrick ==
    \/ PlayCard
    \/ StartNextTrick

SpecTrick == InitTrick /\ [][NextTrick]_vars

-----------------------------------------------------------------------------
(* The start of round r with n seats.  The rounds before r are not played  *)
(* card by card: RoundScored(n, q) is the state the engine is in when round *)
(* q has been dealt and scored, every seat having bid 0 in every round and  *)
(* the first leader of each round having taken every trick of it.           *)

CanonSeed == SeedList[5]

FirstLeader(n, q) == q % n

\* The cumulative score of a seat (0-based) after rounds 1..q of that history.
RECURSIVE ScoreAfter(_, _, _)
ScoreAfter(n, q, seat) ==
    IF q = 0 THEN 0
    ELSE ScoreAfter(n, q - 1, seat)
         + round_score(0, IF seat = FirstLeader(n, q) THEN q ELSE 0)

\* The writes of last_updated up to the scoring of round q: n - 1 joins, and
\* per round k one deal, n bids, k*n plays and k calls of start_next_trick.
ClockAfter(n, q) == (n - 1) + q * (1 + n) + ((n + 1) * q * (q + 1)) \div 2

\* What a scored round q leaves for the deal of round q + 1 to read.
ScoredSummary(n, q) ==
    [Seated(n) EXCEPT
       !.players = [i \in 1..n |->
                      [Seated(n).players[i] EXCEPT !.score = ScoreAfter(n, q, i - 1)]],
       !.phase = ROUND_COMPLETE,
       !.current_round = q,
       !.dealer_index = (q - 1) % n,
       !.trick_winner = Some(IdList[FirstLeader(n, q) + 1]),
       !.last_updated = ClockAfter(n, q)]

\* The end of a dealt round, as play_card and start_next_trick leave it.
SkipPlay(g) ==
    LET n == NumPlayers(g)
        leader == (g.dealer_index + 1) % n
        played == [g EXCEPT
                     !.players = [i \in 1..n |->
                                    [g.players[i] EXCEPT
                                       !.hand = << >>,
                                       !.bid = Some(0),
                                       !.tricks_won =
                                           IF i - 1 = leader THEN cards_this_round(g) ELSE 0]],
                     !.phase = TRICK_COMPLETE,
                     !.current_trick = cards_this_round(g),
                     !.current_player_index = g.dealer_index,
                     !.trick_winner = Some(PlayerAt(g, leader).player_id),
                     !.last_updated = ClockAfter(n, cards_this_round(g)) - 1]
    IN start_next_trick(played)

RoundScored(n, q) ==
    IF q = 1
    THEN SkipPlay(start_game(Seated(n), shuffle_deck(create_deck, CanonSeed)))
    ELSE SkipPlay(start_next_round(ScoredSummary(n, q - 1),
                                   shuffle_deck(create_deck, CanonSeed)))

\* The state in which round r is about to be dealt.
BeforeRound(n, r) == IF r = 1 THEN Seated(n) ELSE RoundScored(n, r - 1)

SeatCounts == MIN_SEATS..MAX_SEATS

\* The deal of round r: start_game for round 1, start_next_round after it.
DealRound(g, shuffled) ==
    IF g.phase = WAITING_FOR_PLAYERS THEN start_game(g, shuffled)
    ELSE start_next_round(g, shuffled)

-----------------------------------------------------------------------------
(* Dealing: every seat count, every round (the round after the last one    *)
(* included), shuffles <<a, b>> for the first NumStrides multipliers a and   *)
(* every offset b.                                                          *)

DealSeeds ==
    {<<StrideList[a], b>> : a \in 1..Min(NumStrides, Len(StrideList)), b \in 0..(DeckSize - 1)}

InitDeal ==
    \E n \in SeatCounts :
      \E r \in 1..(max_rounds(Seated(n)) + 1) :
          /\ gs = BeforeRound(n, r)
          /\ sessions = << >>
          /\ store = << >>
          /\ lastOp = <<"before_round", n, r>>

DealStart ==
    \E seed \in DealSeeds :
        /\ gs.phase = WAITING_FOR_PLAYERS
        /\ NumPlayers(gs) >= MIN_SEATS
        /\ gs' = start_game(gs, shuffle_deck(create_deck, seed))
        /\ UNCHANGED sessions
        /\ UNCHANGED store
        /\ lastOp' = <<"start_game", seed>>

DealNext ==
    \E seed \in DealSeeds :
        /\ gs.phase = ROUND_COMPLETE
        /\ gs' = start_next_round(gs, shuffle_deck(create_deck, seed))
        /\ UNCHANGED sessions
        /\ UNCHANGED store
        /\ lastOp' = <<"start_next_round", seed>>

NextDeal ==
    \/ DealStart
    \/ DealNext

SpecDeal == InitDeal /\ [][NextDeal]_vars

-----------------------------------------------------------------------------
(* Bidding as the front end drives it: every seat count, rounds 1 to        *)
(* MaxBidRound, each current player in turn submitting an offered bid.       *)

InitBid ==
    \E n \in SeatCounts :
      \E r \in 1..Min(MaxBidRound, max_rounds(Seated(n))) :
          /\ gs = DealRound(BeforeRound(n, r), shuffle_deck(create_deck, CanonSeed))
          /\ sessions = << >>
          /\ store = << >>
          /\ lastOp = <<"deal", n, r>>

NextBid == PlaceBid

SpecBid == InitBid /\ [][NextBid]_vars

-----------------------------------------------------------------------------
(* Bidding by unchecked engine calls: place_bid called for any identifier,  *)
(* seated or not, whoever the current player is, in any phase.              *)

Stranger == "px"

InitRawBid ==
    \E n \in MIN_SEATS..Min(MaxRawPlayers, MAX_SEATS) :
      \E r \in 1..Min(MaxRawRound, max_rounds(Seated(n))) :
          /\ gs = DealRound(BeforeRound(n, r), shuffle_deck(create_deck, CanonSeed))
          /\ sessions = << >>
          /\ store = << >>
          /\ lastOp = <<"deal", n, r>>

\* The calls made since the deal: each successful call writes last_updated once.
RawCalls(g) == g.last_updated - (ClockAfter(NumPlayers(g), g.current_round - 1) + 1)

RawPlaceBid ==
    \E pid \in {gs.players[i].player_id : i \in 1..NumPlayers(gs)} \cup {Stranger} :
      \E bid \in 0..cards_this_round(gs) :
          /\ RawCalls(gs) < MaxRawCalls
          /\ gs' = place_bid(gs, pid, bid)
          /\ UNCHANGED sessions
          /\ UNCHANGED store
          /\ lastOp' = <<"place_bid", pid, bid>>

NextRawBid == RawPlaceBid

SpecRawBid == InitRawBid /\ [][NextRawBid]_vars

-----------------------------------------------------------------------------
(* The choice of trump by unchecked engine calls.  The states are those     *)
(* deal_cards returns to start_game and start_next_round (CHOOSING_TRUMP     *)
(* when a Wizard was flipped) and those the two callers return; choose_trump *)
(* is called for any identifier and any suit, and bids follow as the front   *)
(* end offers them.                                                          *)

ChooseSeeds == {SeedList[1], SeedList[2], SeedList[3]}

\* deal_cards as start_game (round 1) and start_next_round (later rounds)
\* call it, without the assignments that follow the call.
DealOnly(g, shuffled) ==
    IF g.phase = WAITING_FOR_PLAYERS THEN deal_cards(g, shuffled)
    ELSE deal_cards([g EXCEPT !.current_round = @ + 1,
                              !.dealer_index = (@ + 1) % NumPlayers(g)], shuffled)

InitChoose ==
    \E n \in MIN_SEATS..Min(MaxChoosePlayers, MAX_SEATS) :
      \E r \in 1..Min(MaxChooseRound, max_rounds(Seated(n))) :
        \E seed \in ChooseSeeds :
          \E inner \in BOOLEAN :
            /\ gs = IF inner
                    THEN DealOnly(BeforeRound(n, r), shuffle_deck(create_deck, seed))
                    ELSE DealRound(BeforeRound(n, r), shuffle_deck(create_deck, seed))
            /\ sessions = << >>
            /\ store = << >>
            /\ lastOp = <<"deal", n, r, seed, inner>>

ChooseTrump ==
    \E pid \in {gs.players[i].player_id : i \in 1..NumPlayers(gs)} \cup {Stranger} :
      \E suit \in Suit :
          /\ gs' = choose_trump(gs, pid, suit)
          /\ UNCHANGED sessions
          /\ UNCHANGED store
          /\ lastOp' = <<"choose_trump", pid, suit>>

NextChoose ==
    \/ ChooseTrump
    \/ PlaceBid

SpecChoose == InitChoose /\ [][NextChoose]_vars

-----------------------------------------------------------------------------
(* Card play with unchecked engine calls next to the front end's: a card    *)
(* that the current player does not hold, and a card played by a seated      *)
(* player into a trick that is complete and not yet cleared.                 *)

RawPlaySeeds == {SeedList[i] : i \in 1..Min(NumRawPlaySeeds, Len(SeedList))}

\* Cards offered to play_card that the caller may not hold.
AbsentCards == {Card(WIZARD, WizardValue), Card(HEARTS, MaxValue), Card(SPADES, 1)}

InHand(g, i, card) == \E k \in 1..Len(g.players[i].hand) : SameCard(g.players[i].hand[k], card)

InitRawPlay ==
    \E n \in MIN_SEATS..Min(MaxRawPlayPlayers, MAX_SEATS) :
      \E r \in 1..Min(MaxRawPlayRound, max_rounds(Seated(n))) :
        \E seed \in RawPlaySeeds :
            /\ gs = BidAll(DealRound(BeforeRound(n, r), shuffle_deck(create_deck, seed)),
                           [i \in 1..n |-> 0], n)
            /\ sessions = << >>
            /\ store = << >>
            /\ lastOp = <<"bids", n, r, seed>>

PlayAbsentCard ==
    \E card \in AbsentCards :
        /\ gs.phase = PLAYING
        /\ ~InHand(gs, gs.current_player_index + 1, card)
        /\ gs' = play_card(gs, current_player(gs).player_id, card)
        /\ UNCHANGED sessions
        /\ UNCHANGED store
        /\ lastOp' = <<"play_card", current_player(gs).player_id, card>>

LatePlayCard ==
    \E i \in 1..NumPlayers(gs) :
      \E k \in 1..Len(gs.players[i].hand) :
        /\ gs.phase = TRICK_COMPLETE
        /\ Len(gs.current_trick_cards) < NumPlayers(gs) + MaxLatePlays
        /\ gs' = play_card(gs, gs.players[i].player_id, gs.players[i].hand[k])
        /\ UNCHANGED sessions
        /\ UNCHANGED store
        /\ lastOp' = <<"play_card", gs.players[i].player_id, gs.players[i].hand[k]>>

\* The front end's plays and the plays of cards that are not held.
NextRawPlay ==
    \/ PlayCard
    \/ StartNextTrick
    \/ PlayAbsentCard

SpecRawPlay == InitRawPlay /\ [][NextRawPlay]_vars

\* The front end's plays and the plays into a complete trick.
NextLatePlay ==
    \/ PlayCard
    \/ StartNextTrick
    \/ LatePlayCard

SpecLatePlay == InitRawPlay /\ [][NextLatePlay]_vars

-----------------------------------------------------------------------------
(* A finished game under unchecked engine calls: the game has gone through  *)
(* its last round and start_next_round has set GAME_OVER; every engine       *)
(* function is then called, for any identifier, in any order.                *)

CallerIds(g) == {g.players[i].player_id : i \in 1..NumPlayers(g)} \cup {Stranger}
RejoinNames == {"ann", "Bob", "Zed"}

InitOver ==
    \E n \in MIN_SEATS..Min(MaxOverPlayers, MAX_SEATS) :
        /\ gs = start_next_round(RoundScored(n, max_rounds(Seated(n))),
                                 shuffle_deck(create_deck, CanonSeed))
        /\ sessions = << >>
        /\ store = << >>
        /\ lastOp = <<"game_over", n>>

\* The calls since the end of the game that wrote the state.
OverCalls(g) ==
    g.last_updated - (ClockAfter(NumPlayers(g), max_rounds(g)) + 1)

OverPlaceBid ==
    \E pid \in CallerIds(gs) : \E bid \in 0..1 :
        /\ OverCalls(gs) < MaxOverCalls
        /\ gs' = place_bid(gs, pid, bid)
        /\ UNCHANGED sessions
        /\ UNCHANGED store
        /\ lastOp' = <<"place_bid", pid, bid>>

OverPlayCard ==
    \E pid \in CallerIds(gs) : \E card \in AbsentCards :
        /\ OverCalls(gs) < MaxOverCalls
        /\ gs' = IF play_card_raises(gs, pid, card) THEN gs ELSE play_card(gs, pid, card)
        /\ UNCHANGED sessions
        /\ UNCHANGED store
        /\ lastOp' = <<"play_card", pid, card>>

OverChooseTrump ==
    \E pid \in CallerIds(gs) : \E suit \in Suit :
        /\ OverCalls(gs) < MaxOverCalls
        /\ gs' = choose_trump(gs, pid, suit)
        /\ UNCHANGED sessions
        /\ UNCHANGED store
        /\ lastOp' = <<"choose_trump", pid, suit>>

OverNextTrick ==
    /\ OverCalls(gs) < MaxOverCalls
    /\ gs' = start_next_trick(gs)
    /\ UNCHANGED sessions
    /\ UNCHANGED store
    /\ lastOp' = <<"start_next_trick">>

OverNextRound ==
    /\ OverCalls(gs) < MaxOverCalls
    /\ gs' = start_next_round(gs, shuffle_deck(create_deck, CanonSeed))
    /\ UNCHANGED sessions
    /\ UNCHANGED store
    /\ lastOp' = <<"start_next_round", CanonSeed>>

OverJoin ==
    \E pid \in CallerIds(gs) :
        /\ OverCalls(gs) < MaxOverCalls
        /\ gs' = join_game(gs, pid, "Zed")
        /\ UNCHANGED sessions
        /\ UNCHANGED store
        /\ lastOp' = <<"join_game", pid>>

OverRejoin ==
    \E pid \in CallerIds(gs) : \E nm \in RejoinNames :
        /\ OverCalls(gs) < MaxOverCalls
        /\ gs' = rejoin_game(gs, pid, nm)[1]
        /\ UNCHANGED sessions
        /\ UNCHANGED store
        /\ lastOp' = <<"rejoin_game", pid, nm>>

OverLeave ==
    \E pid \in CallerIds(gs) :
        /\ OverCalls(gs) < MaxOverCalls
        /\ gs' = leave_game(gs, pid)
        /\ UNCHANGED sessions
        /\ UNCHANGED store
        /\ lastOp' = <<"leave_game", pid>>

NextOver ==
    \/ OverPlaceBid
    \/ OverPlayCard
    \/ OverChooseTrump
    \/ OverNextTrick
    \/ OverNextRound
    \/ OverJoin
    \/ OverRejoin
    \/ OverLeave

SpecOver == InitOver /\ [][NextOver]_vars

-----------------------------------------------------------------------------
(* Joining by unchecked engine calls: join_game is called for any           *)
(* identifier, seated or not, before and after the start of the game; the    *)
(* host starts the game and the first round is bid.                          *)

JoinIds == {IdList[i] : i \in 1..Len(IdList)} \cup {Stranger}
JoinName(pid) == IF pid = Stranger THEN "Zed" ELSE NameOf(pid)

RawJoin ==
    \E pid \in JoinIds :
        /\ gs' = join_game(gs, pid, JoinName(pid))
        /\ UNCHANGED sessions
        /\ UNCHANGED store
        /\ lastOp' = <<"join_game", pid, JoinName(pid)>>

JoinStart ==
    /\ gs.phase = WAITING_FOR_PLAYERS
    /\ NumPlayers(gs) >= MIN_SEATS
    /\ gs' = start_game(gs, shuffle_deck(create_deck, CanonSeed))
    /\ UNCHANGED sessions
    /\ UNCHANGED store
    /\ lastOp' = <<"start_game", CanonSeed>>

NextJoin ==
    \/ RawJoin
    \/ JoinStart
    \/ PlaceBid

SpecJoin == Init /\ [][NextJoin]_vars

-----------------------------------------------------------------------------
(* Leaving and rejoining.  A game is waiting for players or has been dealt  *)
(* round r; any seated player leaves (the sidebar button), any identifier,   *)
(* seated or new, rejoins under one of the names (the lobby and the game     *)
(* screen), and the round is bid and played meanwhile.                       *)

JoinerId == "py"

InitSeats ==
    \E n \in 1..Min(MaxSeatPlayers, MAX_SEATS) :
      \E r \in 0..Min(MaxSeatRound, max_rounds(Seated(n))) :
        /\ (r > 0 => n >= MIN_SEATS)
        /\ gs = IF r = 0 THEN Seated(n)
                ELSE DealRound(BeforeRound(n, r), shuffle_deck(create_deck, CanonSeed))
        /\ sessions = << >>
        /\ store = << >>
        /\ lastOp = <<"seats", n, r>>

\* The calls since the initial state that wrote the state.
SeatCalls(g) ==
    g.last_updated - (IF g.phase = WAITING_FOR_PLAYERS THEN NumPlayers(g) - 1
                      ELSE ClockAfter(NumPlayers(g), g.current_round - 1) + 1)

LeaveGame ==
    \E pid \in CallerIds(gs) :
        /\ SeatCalls(gs) < MaxSeatCalls
        /\ gs' = leave_game(gs, pid)
        /\ UNCHANGED sessions
        /\ UNCHANGED store
        /\ lastOp' = <<"leave_game", pid>>

RejoinGame ==
    \E pid \in CallerIds(gs) \cup {JoinerId} : \E nm \in RejoinNames :
        /\ SeatCalls(gs) < MaxSeatCalls
        /\ gs' = rejoin_game(gs, pid, nm)[1]
        /\ UNCHANGED sessions
        /\ UNCHANGED store
        /\ lastOp' = <<"rejoin_game", pid, nm, rejoin_game(gs, pid, nm)[2]>>

\* render_playing_phase: a valid card of the current player; nothing is
\* saved when play_card raises.
SeatPlayCard ==
    /\ gs.phase = PLAYING
    /\ \E k \in 1..Len(current_player(gs).hand) :
          LET card == current_player(gs).hand[k]
              pid == current_player(gs).player_id
              valid == get_valid_cards(current_player(gs), gs.lead_suit)
          IN /\ \E v \in 1..Len(valid) : valid[v] = card
             /\ gs' = IF play_card_raises(gs, pid, card) THEN gs
                      ELSE play_card(gs, pid, card)
             /\ UNCHANGED sessions
             /\ UNCHANGED store
             /\ lastOp' = <<"play_card", pid, card>>

NextSeats ==
    \/ LeaveGame
    \/ RejoinGame
    \/ PlaceBid
    \/ SeatPlayCard

SpecSeats == InitSeats /\ [][NextSeats]_vars

-----------------------------------------------------------------------------
(* Snapshots: to_dict and from_dict.  A dictionary is a record; a value     *)
(* that may be None is tagged, <<"null">> for None, so that the tests of     *)
(* from_dict, which are tests of truth, read what Python reads.              *)

JNull == <<"null">>
JInt(n) == <<"int", n>>
JStr(x) == <<"str", x>>
JDict(r) == <<"dict", r>>

\* bool(value) for a tagged value.
Truthy(j) ==
    CASE j[1] = "null" -> FALSE
      [] j[1] = "int" -> j[2] # 0
      [] j[1] = "str" -> j[2] # ""
      [] j[1] = "dict" -> TRUE

\* Suit.value, and Suit(value).
SuitValue ==
    [HEARTS |-> "u2665", DIAMONDS |-> "u2666", CLUBS |-> "u2663",
     SPADES |-> "u2660", WIZARD |-> "u1F9D9", JESTER |-> "u1F0CF"]
SuitOf(v) == CHOOSE x \in Suit : SuitValue[x] = v

\* GamePhase(value): a member is written by its value.
GamePhases ==
    {WAITING_FOR_PLAYERS, CHOOSING_TRUMP, BIDDING, PLAYING, TRICK_COMPLETE,
     ROUND_COMPLETE, GAME_OVER}
PhaseOf(v) == CHOOSE x \in GamePhases : x = v

\* Card.to_dict, Card.from_dict
Card_to_dict(c) == [suit |-> SuitValue[c.suit], value |-> c.value]
Card_from_dict(d) == Card(SuitOf(d.suit), d.value)

Cards_to_dict(cs) == [k \in 1..Len(cs) |-> Card_to_dict(cs[k])]
Cards_from_dict(ds) == [k \in 1..Len(ds) |-> Card_from_dict(ds[k])]

\* Player.to_dict
Player_to_dict(pl) ==
    [player_id |-> pl.player_id, name |-> pl.name,
     hand |-> Cards_to_dict(pl.hand),
     bid |-> IF IsNone(pl.bid) THEN JNull ELSE JInt(Val(pl.bid)),
     tricks_won |-> pl.tricks_won, score |-> pl.score,
     is_ready |-> pl.is_ready, is_connected |-> pl.is_connected]

\* Mutant of Player.from_dict: the bid read by a test of truth.
Player_from_dict_FalsyBid(d) ==
    [player_id |-> d.player_id, name |-> d.name,
     hand |-> Cards_from_dict(d.hand),
     bid |-> IF Truthy(d.bid) THEN Some(d.bid[2]) ELSE None,
     tricks_won |-> d.tricks_won, score |-> d.score,
     is_ready |-> d.is_ready, is_connected |-> d.is_connected]

\* Player.from_dict
Player_from_dict(d) ==
    [player_id |-> d.player_id, name |-> d.name,
     hand |-> Cards_from_dict(d.hand),
     bid |-> IF d.bid = JNull THEN None ELSE Some(d.bid[2]),
     tricks_won |-> d.tricks_won, score |-> d.score,
     is_ready |-> d.is_ready, is_connected |-> d.is_connected]

\* PlayedCard.to_dict, PlayedCard.from_dict
PlayedCard_to_dict(pc) == [player_id |-> pc.player_id, card |-> Card_to_dict(pc.card)]
PlayedCard_from_dict(d) == PlayedCard(d.player_id, Card_from_dict(d.card))

\* ChatMessage.to_dict, ChatMessage.from_dict
ChatMessage_to_dict(cm) ==
    [player_name |-> cm.player_name, message |-> cm.message, timestamp |-> cm.timestamp]
ChatMessage_from_dict(d) == ChatMessage(d.player_name, d.message, d.timestamp)

\* GameState.to_dict
to_dict(g) ==
    [game_id |-> g.game_id,
     host_id |-> g.host_id,
     players |-> [k \in 1..Len(g.players) |-> Player_to_dict(g.players[k])],
     phase |-> JStr(g.phase),
     current_round |-> g.current_round,
     current_trick |-> g.current_trick,
     current_player_index |-> g.current_player_index,
     dealer_index |-> g.dealer_index,
     trump_card |-> IF IsSome(g.trump_card)
                    THEN JDict(Card_to_dict(Val(g.trump_card))) ELSE JNull,
     trump_suit |-> IF IsSome(g.trump_suit) THEN JStr(SuitValue[Val(g.trump_suit)]) ELSE JNull,
     lead_suit |-> IF IsSome(g.lead_suit) THEN JStr(SuitValue[Val(g.lead_suit)]) ELSE JNull,
     current_trick_cards |-> [k \in 1..Len(g.current_trick_cards) |->
                                 PlayedCard_to_dict(g.current_trick_cards[k])],
     trick_winner |-> IF IsNone(g.trick_winner) THEN JNull ELSE JStr(Val(g.trick_winner)),
     deck |-> Cards_to_dict(g.deck),
     last_updated |-> g.last_updated,
     message |-> g.message,
     chat_messages |-> [k \in 1..Len(g.chat_messages) |->
                           ChatMessage_to_dict(g.chat_messages[k])]]

\* GameState.from_dict
from_dict(d) ==
    [game_id |-> d.game_id,
     host_id |-> d.host_id,
     players |-> [k \in 1..Len(d.players) |-> Player_from_dict(d.players[k])],
     phase |-> PhaseOf(d.phase[2]),
     current_round |-> d.current_round,
     current_trick |-> d.current_trick,
     current_player_index |-> d.current_player_index,
     dealer_index |-> d.dealer_index,
     trump_card |-> IF Truthy(d.trump_card)
                    THEN Some(Card_from_dict(d.trump_card[2])) ELSE None,
     trump_suit |-> IF Truthy(d.trump_suit) THEN Some(SuitOf(d.trump_suit[2])) ELSE None,
     lead_suit |-> IF Truthy(d.lead_suit) THEN Some(SuitOf(d.lead_suit[2])) ELSE None,
     current_trick_cards |-> [k \in 1..Len(d.current_trick_cards) |->
                                 PlayedCard_from_dict(d.current_trick_cards[k])],
     trick_winner |-> IF d.trick_winner = JNull THEN None ELSE Some(d.trick_winner[2]),
     deck |-> Cards_from_dict(d.deck),
     last_updated |-> d.last_updated,
     message |-> d.message,
     chat_messages |-> [k \in 1..Len(d.chat_messages) |->
                           ChatMessage_from_dict(d.chat_messages[k])]]

\* The states that are written: a waiting game, a round as deal_cards and as
\* its callers leave it, a finished game; the round is then played, the
\* players chat, and players leave.
ChatTexts == {"gg ", "  "}

InitWaiting ==
    \E n \in 1..Min(MaxSnapPlayers, MAX_SEATS) :
        /\ gs = Seated(n)
        /\ sessions = << >>
        /\ store = << >>
        /\ lastOp = <<"seats", n>>

InitSnap ==
    \/ InitWaiting
    \/ InitChoose
    \/ InitOver

\* render_choosing_trump: the dealer picks one of the four suits.
DealerChooses ==
    \E suit \in {OrdinarySuits[k] : k \in 1..Len(OrdinarySuits)} :
        /\ gs.phase = CHOOSING_TRUMP
        /\ gs' = choose_trump(gs, PlayerAt(gs, gs.dealer_index).player_id, suit)
        /\ UNCHANGED sessions
        /\ UNCHANGED store
        /\ lastOp' = <<"choose_trump", PlayerAt(gs, gs.dealer_index).player_id, suit>>

\* send_chat_message, called for the host.
SendChat ==
    \E text \in ChatTexts :
        /\ Len(gs.chat_messages) < MaxChat
        /\ gs' = send_chat_message(gs, gs.host_id, text)
        /\ UNCHANGED sessions
        /\ UNCHANGED store
        /\ lastOp' = <<"send_chat_message", gs.host_id, text>>

\* "Leave Game", pressed by the player whose turn it is.
CurrentLeaves ==
    /\ HasCurrentPlayer(gs)
    /\ current_player(gs).is_connected
    /\ gs' = leave_game(gs, current_player(gs).player_id)
    /\ UNCHANGED sessions
    /\ UNCHANGED store
    /\ lastOp' = <<"leave_game", current_player(gs).player_id>>

NextSnap ==
    \/ DealerChooses
    \/ PlaceBid
    \/ PlayCard
    \/ StartNextTrick
    \/ SendChat
    \/ CurrentLeaves

SpecSnap == InitSnap /\ [][NextSnap]_vars

-----------------------------------------------------------------------------
(* The stored game and the sessions of its players.  gs is the document of  *)
(* the game in the database.  A script run of a session loads the game       *)
(* (main), applies one engine function to its copy (a button), and saves     *)
(* the copy (save_game_state); save_game takes no lock and checks no         *)
(* version, so the runs of different sessions interleave step by step.       *)
(* Each seated player makes one run: Leave Game, or a bid when the copy      *)
(* shows it to be that player's turn to bid.                                 *)

Idle == [pc |-> "idle", copy |-> None, op |-> <<"none">>]

InitDb ==
    \E n \in MIN_SEATS..Min(MaxDbPlayers, MAX_SEATS) :
      \E r \in 1..Min(MaxDbRound, max_rounds(Seated(n))) :
        /\ gs = DealRound(BeforeRound(n, r), shuffle_deck(create_deck, CanonSeed))
        /\ sessions = [c \in CallerIds(Seated(n)) \ {Stranger} |-> Idle]
        /\ store = << >>
        /\ lastOp = <<"deal", n, r>>

\* load_game: GameState.from_dict of the stored document.
load_game(stored) == from_dict(to_dict(stored))

\* save_game: last_updated is rewritten and the document replaced.
save_game(stored, g) == [g EXCEPT !.last_updated = Now(stored)]

DbLoad ==
    \E c \in DOMAIN sessions :
        /\ sessions[c].pc = "idle"
        /\ sessions' = [sessions EXCEPT ![c] = [pc |-> "loaded",
                                                copy |-> Some(load_game(gs)),
                                                op |-> <<"none">>]]
        /\ gs' = gs
        /\ UNCHANGED store
        /\ lastOp' = <<"load_game", c>>

DbLeave ==
    \E c \in DOMAIN sessions :
        /\ sessions[c].pc = "loaded"
        /\ sessions' = [sessions EXCEPT ![c] = [pc |-> "changed",
                                                copy |-> Some(leave_game(Val(@.copy), c)),
                                                op |-> <<"leave_game">>]]
        /\ gs' = gs
        /\ UNCHANGED store
        /\ lastOp' = <<"leave_game", c>>

DbBid ==
    \E c \in DOMAIN sessions :
      LET g == Val(sessions[c].copy)
      IN /\ sessions[c].pc = "loaded"
         /\ g.phase = BIDDING
         /\ current_player(g).player_id = c
         /\ \E bid \in valid_bids(g) :
               /\ sessions' = [sessions EXCEPT ![c] = [pc |-> "changed",
                                                       copy |-> Some(place_bid(g, c, bid)),
                                                       op |-> <<"place_bid", bid>>]]
               /\ gs' = gs
               /\ UNCHANGED store
               /\ lastOp' = <<"place_bid", c, bid>>

DbSave ==
    \E c \in DOMAIN sessions :
        /\ sessions[c].pc = "changed"
        /\ gs' = save_game(gs, Val(sessions[c].copy))
        /\ sessions' = [sessions EXCEPT ![c].pc = "saved"]
        /\ UNCHANGED store
        /\ lastOp' = <<"save_game", c>>

NextDb ==
    \/ DbLoad
    \/ DbLeave
    \/ DbBid
    \/ DbSave

SpecDb == InitDb /\ [][NextDb]_vars

-----------------------------------------------------------------------------
(* Following suit: two players, a round of MaxFollowRound cards each, every  *)
(* pair of hands of Wizards, Jesters and low cards of two suits; all bid 0   *)
(* and the round is played from the front end.                               *)

FollowCards ==
    {Card(WIZARD, WizardValue), Card(JESTER, JesterValue)}
    \cup {Card(TrickSuits[s], v) : s \in 1..2, v \in 1..Min(FollowRanks, MaxValue)}

FollowRound == Min(MaxFollowRound, max_rounds(Seated(MIN_SEATS)))

\* The top of the deck from which deal_cards deals h1 and h2 card by card.
Interleave(h1, h2) ==
    [k \in 1..(2 * Len(h1)) |-> IF k % 2 = 1 THEN h1[(k + 1) \div 2] ELSE h2[k \div 2]]

InitFollow ==
    \E h1, h2 \in [1..FollowRound -> FollowCards] :
      LET flip == Card(TrickSuits[3], MaxValue)
          top == Interleave(h1, h2) \o <<flip>>
      IN /\ SortHand(h1) = h1 /\ SortHand(h2) = h2
         /\ IsSubDeck(top, create_deck)
         /\ gs = BidAll(DealRound(BeforeRound(MIN_SEATS, FollowRound),
                                  stacked_deck(create_deck, top)),
                        [i \in 1..MIN_SEATS |-> 0], MIN_SEATS)
         /\ sessions = << >>
         /\ store = << >>
         /\ lastOp = <<"place_bid", IdList[1], 0>>

NextFollow ==
    \/ PlayCard
    \/ StartNextTrick

SpecFollow == InitFollow /\ [][NextFollow]_vars

-----------------------------------------------------------------------------
(* start_next_trick called on a round that is complete: the function tests  *)
(* no phase, so a call made in ROUND_COMPLETE runs as any other.            *)

LateNextTrick ==
    /\ gs.phase = ROUND_COMPLETE
    /\ gs.current_trick <= cards_this_round(gs) + MaxLateTricks
    /\ gs' = start_next_trick(gs)
    /\ UNCHANGED sessions
    /\ UNCHANGED store
    /\ lastOp' = <<"start_next_trick">>

\* The front end's plays and the calls on a complete round.
NextLateTrick ==
    \/ PlayCard
    \/ StartNextTrick
    \/ LateNextTrick

SpecLateTrick == InitRawPlay /\ [][NextLateTrick]_vars

-----------------------------------------------------------------------------
(* The seats of one game from its creation: join_game, rejoin_game and       *)
(* leave_game called in any order.  The players join in the order of        *)
(* IdList, and the host, a stranger and a session that comes later call      *)
(* join_game as well; rejoin_game and leave_game are called with every       *)
(* identifier, and MaxMemberCalls of their calls write the state.            *)

MemberIds == JoinIds \cup {JoinerId}
MemberName(pid) == IF pid = JoinerId THEN "zed" ELSE JoinName(pid)

\* The identifiers that call join_game.
NewMembers(g) ==
    {IdList[1], IdList[Min(NumPlayers(g) + 1, Len(IdList))], Stranger, JoinerId}

\* The rejoin_game and leave_game calls that wrote the state.
MemberCalls(g) == g.last_updated - (NumPlayers(g) - 1)

MemberJoin ==
    \E pid \in NewMembers(gs) :
        /\ gs' = join_game(gs, pid, MemberName(pid))
        /\ UNCHANGED sessions
        /\ UNCHANGED store
        /\ lastOp' = <<"join_game", pid, MemberName(pid)>>

MemberRejoin ==
    \E pid \in MemberIds : \E nm \in RejoinNames :
        /\ MemberCalls(gs) < MaxMemberCalls
        /\ gs' = rejoin_game(gs, pid, nm)[1]
        /\ UNCHANGED sessions
        /\ UNCHANGED store
        /\ lastOp' = <<"rejoin_game", pid, nm, rejoin_game(gs, pid, nm)[2]>>

MemberLeave ==
    \E pid \in MemberIds :
        /\ MemberCalls(gs) < MaxMemberCalls
        /\ gs' = leave_game(gs, pid)
        /\ UNCHANGED sessions
        /\ UNCHANGED store
        /\ lastOp' = <<"leave_game", pid>>

NextMembers ==
    \/ MemberJoin
    \/ MemberRejoin
    \/ MemberLeave

SpecMembers == Init /\ [][NextMembers]_vars

-----------------------------------------------------------------------------
(* The file of LocalJSONDatabase.  store is the file: intact when it holds   *)
(* a JSON text, with the dictionary "games" of that text; not intact from    *)
(* open(path, "w"), which empties it, until json.dump has written.  Two      *)
(* sessions, each of its own game, call save_game; gs is not used.  A        *)
(* save_game call is three steps on the file, _read_all, open and dump;      *)
(* nothing locks the file between them.                                      *)

GameIdList == <<"GAME01", "GAME02">>
GameIds == {GameIdList[k] : k \in 1..Len(GameIdList)}

NoGames == [x \in {} |-> 0]
EmptyFile == [intact |-> FALSE, games |-> NoGames]

\* data["games"][key] = doc
Put(games, key, doc) ==
    [x \in (DOMAIN games) \cup {key} |-> IF x = key THEN doc ELSE games[x]]

\* _read_all: a file that is not a JSON text reads as {"games": {}}.
read_all(file) == IF file.intact THEN file.games ELSE NoGames

\* _write_all, the dump.
write_all(data) == [intact |-> TRUE, games |-> data]

\* LocalJSONDatabase.load_game
file_load_game(file, gid) ==
    IF gid \in DOMAIN read_all(file) THEN Some(from_dict(read_all(file)[gid])) ELSE None

\* The state a session saves: its game with one seat or more.
SavedStates(gid) ==
    {JoinAll(create_new_game(gid, IdList[1], NameList[1], 0), n) :
        n \in 1..Min(MaxFilePlayers, MAX_SEATS)}

InitFile ==
    \E before \in SUBSET GameIds :
      \E saved \in [GameIds -> UNION {SavedStates(gid) : gid \in GameIds}] :
        /\ \A gid \in GameIds : saved[gid] \in SavedStates(gid)
        /\ gs = << >>
        /\ store = write_all([gid \in before |->
                                 to_dict(create_new_game(gid, IdList[1], NameList[1], 0))])
        /\ sessions = [gid \in GameIds |->
                          [pc |-> "idle", game_state |-> saved[gid], data |-> NoGames]]
        /\ lastOp = <<"file", before>>

\* save_game up to _write_all: the file is read, last_updated is set and
\* the game's entry of the data is replaced.
FileRead ==
    \E c \in DOMAIN sessions :
        /\ sessions[c].pc = "idle"
        /\ sessions' = [sessions EXCEPT
                           ![c].pc = "read",
                           ![c].game_state = Touch(@),
                           ![c].data = Put(read_all(store), c, to_dict(Touch(sessions[c].game_state)))]
        /\ UNCHANGED <<gs, store>>
        /\ lastOp' = <<"_read_all", c>>

\* _write_all: open(self.file_path, "w")
FileOpen ==
    \E c \in DOMAIN sessions :
        /\ sessions[c].pc = "read"
        /\ sessions' = [sessions EXCEPT ![c].pc = "open"]
        /\ store' = EmptyFile
        /\ gs' = gs
        /\ lastOp' = <<"open", c>>

\* _write_all: json.dump(data, f)
FileDump ==
    \E c \in DOMAIN sessions :
        /\ sessions[c].pc = "open"
        /\ sessions' = [sessions EXCEPT ![c].pc = "done"]
        /\ store' = write_all(sessions[c].data)
        /\ gs' = gs
        /\ lastOp' = <<"dump", c>>

NextFile ==
    \/ FileRead
    \/ FileOpen
    \/ FileDump

SpecFile == InitFile /\ [][NextFile]_vars

-----------------------------------------------------------------------------
(* Properties of bidding and dealing *)

\* Seats (1-based) other than the dealer's, and the sum of their bids.
DealerSeat == gs.dealer_index + 1
OtherSeats == (1..NumPlayers(gs)) \ {DealerSeat}
BidSeats == {i \in 1..NumPlayers(gs) : IsSome(gs.players[i].bid)}
RECURSIVE SumBids(_, _)
SumBids(g, S) ==
    IF S = {} THEN 0
    ELSE LET i == CHOOSE x \in S : TRUE
         IN Val(g.players[i].bid) + SumBids(g, S \ {i})

\* Scenario D of the specification: 4 players, 5 cards, the three seats after
\* the dealer have bid 2, 1 and 1 and it is the dealer's turn.
ScenarioD ==
    BidAll(DealRound(BeforeRound(4, 5), shuffle_deck(create_deck, CanonSeed)),
           [i \in 1..4 |-> IF i = 2 THEN 2 ELSE 1], 3)

\* C6: get_forbidden_bid returns cards_this_round minus the sum of the other
\* players' bids exactly when the current actor is the dealer, every other
\* player has a bid and that difference lies in 0..cards_this_round; in every
\* other case it returns -1.  In Scenario D it returns 1.
C6_ForbiddenBid ==
    /\ get_forbidden_bid(gs) =
          (IF /\ gs.current_player_index = gs.dealer_index
              /\ OtherSeats \subseteq BidSeats
              /\ cards_this_round(gs) - SumBids(gs, OtherSeats \cap BidSeats)
                    \in 0..cards_this_round(gs)
           THEN cards_this_round(gs) - SumBids(gs, OtherSeats)
           ELSE 0 - 1)
    /\ ScenarioD.phase = BIDDING
    /\ ScenarioD.current_player_index = ScenarioD.dealer_index
    /\ get_forbidden_bid(ScenarioD) = 1

\* C6 witness: three seats, three cards, a bid was placed, it is the dealer's
\* turn, the two others have bid 1 in total and the forbidden bid is 2.
C6_Witness ==
    /\ NumPlayers(gs) = 3 /\ cards_this_round(gs) = 3
    /\ lastOp[1] = "place_bid"
    /\ gs.current_player_index = gs.dealer_index
    /\ OtherSeats \subseteq BidSeats
    /\ SumBids(gs, OtherSeats) = 1
    /\ get_forbidden_bid(gs) = 2

\* C7: with every bid chosen among the offered bids (0..cards_this_round,
\* minus the forbidden bid for the dealer), the current player always has a
\* bid to choose, and when bidding has just completed (PLAYING, trick 1, no
\* card played) the bids do not add up to cards_this_round.
C7_ScrewTheDealer ==
    /\ gs.phase = BIDDING => valid_bids(gs) # {}
    /\ (gs.phase = PLAYING /\ gs.current_trick = 1 /\ gs.current_trick_cards = << >>) =>
          /\ BidSeats = 1..NumPlayers(gs)
          /\ SumBids(gs, BidSeats) # cards_this_round(gs)

\* C7 witness: bidding has completed with six seats in round 6, the others'
\* bids left the dealer a forbidden bid, and the bids add up to one more than
\* the tricks available.
C7_Witness ==
    /\ gs.phase = PLAYING /\ NumPlayers(gs) = 6 /\ cards_this_round(gs) = 6
    /\ BidSeats = 1..NumPlayers(gs)
    /\ SumBids(gs, OtherSeats) <= cards_this_round(gs)
    /\ SumBids(gs, BidSeats) = cards_this_round(gs) + 1

\* C8: while bids are placed by the current player only, the k seats that
\* have bid are the k seats after the dealer, the current player is the next
\* one, so bidding starts at the seat after the dealer and the current player
\* is the dealer only when every other player has a bid.
C8_DealerBidsLast ==
    gs.phase = BIDDING =>
        LET n == NumPlayers(gs)
            k == Cardinality(BidSeats)
        IN /\ k < n
           /\ BidSeats = {((gs.dealer_index + j) % n) + 1 : j \in 1..k}
           /\ gs.current_player_index = (gs.dealer_index + 1 + k) % n
           /\ gs.current_player_index = gs.dealer_index => OtherSeats \subseteq BidSeats
           /\ DealerSeat \notin BidSeats

\* C8 witness: six seats, round 6 (the dealer is the last seat, the first
\* bidder seat 0), and the dealer is to bid after the five others.
C8_Witness ==
    /\ gs.phase = BIDDING /\ NumPlayers(gs) = 6
    /\ gs.dealer_index = 5
    /\ gs.current_player_index = gs.dealer_index
    /\ BidSeats = 1..5
    /\ lastOp[1] = "place_bid"

\* All cards of the game: the hands, the trump card and the deck.
RECURSIVE AllHands(_, _)
AllHands(g, i) == IF i > NumPlayers(g) THEN << >> ELSE g.players[i].hand \o AllHands(g, i + 1)
AllCards(g) == AllHands(g, 1) \o g.trump_card \o g.deck
Dealt == lastOp[1] \in {"start_game", "start_next_round"} /\ gs.phase # GAME_OVER

\* C9: after the deal of round r with n players (2 <= n <= 6, r <= 60 div n)
\* every player holds exactly r cards, has no bid and no trick; the hands, the
\* trump card (if any) and the deck are 60 cards, none more often than in the
\* 60-card deck.
C9_DealInvariant ==
    Dealt =>
        /\ gs.current_round <= max_rounds(gs)
        /\ \A i \in 1..NumPlayers(gs) :
              /\ Len(gs.players[i].hand) = gs.current_round
              /\ gs.players[i].bid = None
              /\ gs.players[i].tricks_won = 0
        /\ Len(gs.trump_card) \in {0, 1}
        /\ Len(AllCards(gs)) = 60
        /\ \A k \in 1..60 :
              Count(AllCards(gs), AllCards(gs)[k]) <= Count(create_deck, AllCards(gs)[k])

\* C9 witness: round 10 was dealt to six seats that had bids and tricks from
\* round 9: all 60 cards are in the hands, no trump card, an empty deck.
C9_Witness ==
    /\ Dealt /\ NumPlayers(gs) = 6 /\ gs.current_round = 10
    /\ \A i \in 1..6 : Len(gs.players[i].hand) = 10 /\ gs.players[i].bid = None
    /\ gs.trump_card = None /\ gs.deck = << >>

\* C10: when the card flipped at the start of a round (start_game,
\* start_next_round) is a Wizard, the phase is CHOOSING_TRUMP after that
\* transition and stays so, no bid accepted and the trump suit unset, until
\* the dealer's choose_trump: while a flipped Wizard has no trump suit chosen
\* the phase is CHOOSING_TRUMP and no player has a bid.
C10_WizardFlipAwaitsChoice ==
    (IsSome(gs.trump_card) /\ Val(gs.trump_card).suit = WIZARD /\ IsNone(gs.trump_suit)) =>
        /\ gs.phase = CHOOSING_TRUMP
        /\ BidSeats = {}

-----------------------------------------------------------------------------
(* Properties of trick resolution (checked under SpecTrick) *)

\* The completed trick's play list, and positions in it.
Trick == gs.current_trick_cards
TrickDone == gs.phase = TRICK_COMPLETE /\ Len(Trick) = NumPlayers(gs)
WizardPos == {i \in 1..Len(Trick) : Trick[i].card.suit = WIZARD}
JesterPos == {i \in 1..Len(Trick) : Trick[i].card.suit = JESTER}
OrdinaryPos == {i \in 1..Len(Trick) : ~IsSpecial(Trick[i].card)}
TrumpPos ==
    {i \in 1..Len(Trick) : IsSome(gs.trump_suit) /\ Trick[i].card.suit = Val(gs.trump_suit)}
FirstOf(S) == CHOOSE i \in S : \A j \in S : i <= j
\* The position whose card has the highest value among the positions S.
HighestOf(S) == CHOOSE i \in S : \A j \in S : Trick[j].card.value <= Trick[i].card.value
\* The winner recorded by play_card, and that winner credited with the trick.
WinnerIs(pos) ==
    /\ gs.trick_winner = Some(Trick[pos].player_id)
    /\ \A i \in 1..NumPlayers(gs) :
          gs.players[i].tricks_won =
              (IF gs.players[i].player_id = Trick[pos].player_id THEN 1 ELSE 0)

\* C1: over a complete trick that holds at least one Wizard, the winner is the
\* player of the first Wizard in play order, whatever the trump suit, the lead
\* suit and the other cards (later Wizards included) are.
C1_FirstWizardWins ==
    (TrickDone /\ WizardPos # {}) => WinnerIs(FirstOf(WizardPos))

\* C1 witness: Scenario A of the specification: four players, trump set, plays
\* [ordinary non-trump, Wizard, Wizard, trump card], won by the second player.
C1_Witness ==
    /\ TrickDone /\ Len(Trick) = 4
    /\ IsSome(gs.trump_suit)
    /\ WizardPos = {2, 3}
    /\ 1 \notin TrumpPos /\ 4 \in TrumpPos
    /\ gs.trick_winner = Some(Trick[2].player_id)

\* C2: over a complete trick with no Wizard in which a card of the trump suit
\* was played, the winner is the player of the highest trump card, whatever
\* the ranks of the other cards and the play order are.
C2_HighestTrumpWins ==
    (TrickDone /\ WizardPos = {} /\ TrumpPos # {}) => WinnerIs(HighestOf(TrumpPos))

\* C2 witness: Scenario C of the specification: the lead suit is not trump,
\* plays [lead card, trump of no higher value, higher lead card], won by the trump.
C2_Witness ==
    /\ TrickDone /\ Len(Trick) = 3
    /\ WizardPos = {} /\ TrumpPos = {2}
    /\ gs.lead_suit = Some(Trick[1].card.suit)
    /\ Trick[3].card.suit = Trick[1].card.suit
    /\ Trick[2].card.value <= Trick[1].card.value
    /\ Trick[1].card.value < Trick[3].card.value
    /\ gs.trick_winner = Some(Trick[2].player_id)

\* The suit of the first non-wildcard card of the play list.
FirstOrdinarySuit == Trick[FirstOf(OrdinaryPos)].card.suit
LeadPos == {i \in OrdinaryPos : Trick[i].card.suit = FirstOrdinarySuit}

\* C3: over a complete trick with no Wizard and no trump-suit card (or no
\* trump suit), the winner is the player of the highest card of the lead suit,
\* the lead suit being the suit of the first non-wildcard card in play order;
\* a card that is neither trump nor of the lead suit never wins.
C3_HighestLeadWins ==
    (TrickDone /\ WizardPos = {} /\ TrumpPos = {} /\ OrdinaryPos # {}) =>
        /\ gs.lead_suit = Some(FirstOrdinarySuit)
        /\ WinnerIs(HighestOf(LeadPos))

\* C3 witness: a Jester is led, the second card sets the lead suit, and a
\* later card of another suit that is not trump has a higher value and loses.
C3_Witness ==
    /\ TrickDone /\ Len(Trick) >= 3
    /\ WizardPos = {} /\ TrumpPos = {} /\ IsSome(gs.trump_suit)
    /\ 1 \in JesterPos /\ 2 \in OrdinaryPos
    /\ \E i \in OrdinaryPos :
          /\ i > 2
          /\ Trick[i].card.suit # Trick[2].card.suit
          /\ Trick[i].card.value > Trick[2].card.value
    /\ gs.trick_winner = Some(Trick[2].player_id)

\* C4: over a complete trick with no Wizard: when every card is a Jester the
\* first player in play order wins; when some card is not a Jester the
\* winner's card is not a Jester, also when a Jester was led.
C4_JesterNeverWins ==
    (TrickDone /\ WizardPos = {}) =>
        IF JesterPos = 1..Len(Trick)
        THEN WinnerIs(1)
        ELSE \E i \in 1..Len(Trick) : i \notin JesterPos /\ WinnerIs(i)

\* C4 witness: Scenario B of the specification: every card of the trick is a
\* Jester and the first player to act has won.
C4_Witness ==
    /\ TrickDone /\ Len(Trick) >= 2
    /\ JesterPos = 1..Len(Trick)
    /\ gs.trick_winner = Some(Trick[1].player_id)

-----------------------------------------------------------------------------
(* Properties of the trump suit and the deal *)

Ordinary == {OrdinarySuits[i] : i \in 1..Len(OrdinarySuits)}
IsDeal(op) == op[1] \in {"start_game", "start_next_round"}

\* The trump suit the flipped card stands for.
TrumpOfFlip ==
    /\ gs.trump_suit \notin {Some(WIZARD), Some(JESTER)}
    /\ (IsSome(gs.trump_card) /\ Val(gs.trump_card).suit \in Ordinary) =>
          gs.trump_suit = Some(Val(gs.trump_card).suit)
    /\ (IsSome(gs.trump_card) /\ Val(gs.trump_card).suit = JESTER) =>
          gs.trump_suit = None

\* C11: after a deal that flips an ordinary-suit card the trump suit is that
\* card's suit, after one that flips a Jester it is unset; no step other than
\* a deal (a bid, a card, the next trick, the scoring) changes the trump card
\* or the trump suit, and the trump suit is never Wizard or Jester.
C11_TrumpSuitOfRound ==
    /\ []TrumpOfFlip
    /\ [][(~IsDeal(lastOp')) =>
            (gs'.trump_suit = gs.trump_suit /\ gs'.trump_card = gs.trump_card)]_vars

\* C11 witness: round 2 has been played to its scoring and the trump suit is
\* still the suit of the ordinary card flipped at its deal.
C11_Witness ==
    /\ gs.phase = ROUND_COMPLETE /\ gs.current_round = 2
    /\ IsSome(gs.trump_card) /\ Val(gs.trump_card).suit \in Ordinary
    /\ gs.trump_suit = Some(Val(gs.trump_card).suit)

\* C12: the deal of round r to n players leaves no trump card exactly when
\* r * n = 60; then the trump suit is unset as well and the round opens in
\* BIDDING.
C12_ExhaustedDeck ==
    Dealt =>
        LET n == NumPlayers(gs)
            r == gs.current_round
        IN /\ (gs.trump_card = None) <=> (r * n = 60)
           /\ (r * n = 60) => (gs.trump_suit = None /\ gs.deck = << >> /\ gs.phase = BIDDING)
           /\ gs.phase # CHOOSING_TRUMP \/ r * n # 60

\* C12 witness: round 20 dealt to three seats whose previous round had a trump
\* card and a trump suit; neither is left.
C12_Witness ==
    /\ Dealt /\ NumPlayers(gs) = 3 /\ gs.current_round = 20
    /\ IsSome(BeforeRound(3, 20).trump_card) /\ IsSome(BeforeRound(3, 20).trump_suit)
    /\ gs.trump_card = None /\ gs.trump_suit = None /\ gs.phase = BIDDING

-----------------------------------------------------------------------------
(* Properties of rejected and accepted calls *)

DealerId(g) == PlayerAt(g, g.dealer_index).player_id
SeatedIds(g) == {g.players[i].player_id : i \in 1..NumPlayers(g)}
Bids(g) == [i \in 1..NumPlayers(g) |-> g.players[i].bid]

\* C13: a choose_trump call by anyone but the current dealer, or in a phase
\* other than CHOOSING_TRUMP, returns the state it was given, equal in every
\* field.
C13_ChooseTrumpRejected ==
    [][(lastOp'[1] = "choose_trump"
          /\ (lastOp'[2] # DealerId(gs) \/ gs.phase # CHOOSING_TRUMP)) =>
       gs' = gs]_vars

\* C13 witness: a seated player who is not the dealer has called choose_trump
\* while the dealer's choice was awaited; it still is.
C13_Witness ==
    /\ lastOp[1] = "choose_trump"
    /\ lastOp[2] \in SeatedIds(gs) /\ lastOp[2] # DealerId(gs)
    /\ lastOp[3] \in Ordinary
    /\ gs.phase = CHOOSING_TRUMP /\ gs.trump_suit = None

\* C14: a bid of the current player in BIDDING is recorded for that player;
\* if a bid is still missing afterwards the phase stays BIDDING and the turn
\* passes to the next seat (wrapping), and if it was the last missing bid the
\* phase becomes PLAYING and the current player is seat (dealer_index + 1) mod n.
C14_BidAdvancesTurn ==
    [][(gs.phase = BIDDING /\ lastOp'[1] = "place_bid"
          /\ lastOp'[2] = current_player(gs).player_id) =>
       LET n == NumPlayers(gs)
           i == gs.current_player_index + 1
           last == \A j \in (1..n) \ {i} : IsSome(gs.players[j].bid)
       IN /\ Bids(gs') = [Bids(gs) EXCEPT ![i] = Some(lastOp'[3])]
          /\ gs'.dealer_index = gs.dealer_index
          /\ ~last => /\ gs'.phase = BIDDING
                      /\ gs'.current_player_index = (gs.current_player_index + 1) % n
          /\ last => /\ gs'.phase = PLAYING
                     /\ gs'.current_player_index = (gs.dealer_index + 1) % n]_vars

\* C14 witness: the last of six seats (seat 5, the dealer of round 6) has
\* bid; the phase is PLAYING and the turn has wrapped to seat 0.
C14_Witness ==
    /\ lastOp[1] = "place_bid" /\ lastOp[2] = IdList[6]
    /\ NumPlayers(gs) = 6 /\ gs.dealer_index = 5
    /\ gs.phase = PLAYING /\ gs.current_player_index = 0
    /\ \A j \in 1..6 : IsSome(gs.players[j].bid)

\* C15: a place_bid call by an unknown identifier, by a seated player who is
\* not the current player, or in a phase other than BIDDING, records no bid
\* and changes neither the current player index nor the phase.
C15_RejectedBidUnchanged ==
    [][(lastOp'[1] = "place_bid"
          /\ (\/ lastOp'[2] \notin SeatedIds(gs)
              \/ lastOp'[2] # current_player(gs).player_id
              \/ gs.phase # BIDDING)) =>
       /\ Bids(gs') = Bids(gs)
       /\ gs'.current_player_index = gs.current_player_index
       /\ gs'.phase = gs.phase]_vars

-----------------------------------------------------------------------------
(* Properties of card play and tricks *)

Seat(g, pid) == get_player(g, pid)
TricksWon(g) == [i \in 1..NumPlayers(g) |-> g.players[i].tricks_won]
SumTricks(g) == SumSeq(TricksWon(g))

\* C16: play_card with a card that the actor does not hold leaves the state
\* unchanged: the trick, the lead suit, the current player index, the phase
\* and every tricks_won.
C16_AbsentCardUnchanged ==
    [][(lastOp'[1] = "play_card" /\ Seat(gs, lastOp'[2]) # 0
          /\ ~InHand(gs, Seat(gs, lastOp'[2]), lastOp'[3])) =>
       /\ gs'.current_trick_cards = gs.current_trick_cards
       /\ gs'.lead_suit = gs.lead_suit
       /\ gs'.current_player_index = gs.current_player_index
       /\ gs'.phase = gs.phase
       /\ TricksWon(gs') = TricksWon(gs)]_vars

\* C17: play_card with a card of the actor's hand removes exactly one copy of
\* it: the hand is one card shorter and keeps every other card, identical
\* Wizards and Jesters included.
C17_PlayRemovesOneCopy ==
    [][(lastOp'[1] = "play_card" /\ Seat(gs, lastOp'[2]) # 0
          /\ InHand(gs, Seat(gs, lastOp'[2]), lastOp'[3])) =>
       LET i == Seat(gs, lastOp'[2])
       IN /\ Len(gs'.players[i].hand) = Len(gs.players[i].hand) - 1
          /\ gs'.players[i].hand = RemoveFirst(gs.players[i].hand, lastOp'[3])]_vars

\* C18: the current trick never holds more cards than there are players;
\* the phase is TRICK_COMPLETE exactly when it holds that many; the play_card
\* call that fills the trick sets trick_winner and credits exactly that player
\* with one trick; a play_card call on a complete trick changes neither
\* trick_winner nor any tricks_won nor the play list.
C18_TrickCompleteOnce ==
    /\ [](/\ Len(gs.current_trick_cards) <= NumPlayers(gs)
          /\ (gs.phase = TRICK_COMPLETE) <=> (Len(gs.current_trick_cards) = NumPlayers(gs)))
    /\ [][(lastOp'[1] = "play_card" /\ gs.phase = PLAYING
              /\ Len(gs'.current_trick_cards) = NumPlayers(gs)) =>
           /\ gs'.phase = TRICK_COMPLETE
           /\ gs'.trick_winner = Some(determine_trick_winner(gs'))
           /\ TricksWon(gs') =
                 [TricksWon(gs) EXCEPT ![Seat(gs, Val(gs'.trick_winner))] = @ + 1]]_vars
    /\ [][(lastOp'[1] = "play_card" /\ gs.phase = TRICK_COMPLETE) =>
           /\ gs'.trick_winner = gs.trick_winner
           /\ TricksWon(gs') = TricksWon(gs)
           /\ gs'.current_trick_cards = gs.current_trick_cards]_vars

\* C19: the tricks credited in a round are the tricks completed in it, and
\* the phase is ROUND_COMPLETE only when cards_this_round tricks have been
\* completed: then the players' tricks_won add up to cards_this_round.
C19_TricksAddUp ==
    /\ gs.phase = PLAYING => SumTricks(gs) = gs.current_trick - 1
    /\ gs.phase = TRICK_COMPLETE =>
          (SumTricks(gs) = gs.current_trick /\ gs.current_trick <= cards_this_round(gs))
    /\ gs.phase = ROUND_COMPLETE =>
          /\ SumTricks(gs) = cards_this_round(gs)
          /\ gs.current_trick = cards_this_round(gs) + 1

\* C19 witness: round 2 is complete and two players have won one trick each.
C19_Witness ==
    /\ gs.phase = ROUND_COMPLETE /\ gs.current_round = 2
    /\ \E i, j \in 1..NumPlayers(gs) :
          i # j /\ gs.players[i].tricks_won = 1 /\ gs.players[j].tricks_won = 1

\* C20: start_next_trick on a complete trick clears the play list and the
\* lead suit and increments the trick counter; if the trick was not the last
\* of the round the winner of the trick becomes the current player, the
\* phase PLAYING and trick_winner unset; after the last trick the phase is
\* ROUND_COMPLETE.
C20_NextTrick ==
    [][(lastOp'[1] = "start_next_trick" /\ gs.phase = TRICK_COMPLETE) =>
       /\ gs'.current_trick_cards = << >>
       /\ gs'.lead_suit = None
       /\ gs'.current_trick = gs.current_trick + 1
       /\ gs.current_trick < cards_this_round(gs) =>
             /\ gs'.current_player_index = Seat(gs, Val(gs.trick_winner)) - 1
             /\ gs'.phase = PLAYING
             /\ gs'.trick_winner = None
       /\ gs.current_trick >= cards_this_round(gs) => gs'.phase = ROUND_COMPLETE]_vars

\* C20 witness: the second trick of a round has begun, led by the winner of
\* the first, who is not the seat that led the first.
C20_Witness ==
    /\ lastOp[1] = "start_next_trick"
    /\ gs.phase = PLAYING /\ gs.current_trick = 2
    /\ gs.current_trick_cards = << >> /\ gs.lead_suit = None /\ gs.trick_winner = None
    /\ gs.current_player_index # (gs.dealer_index + 1) % NumPlayers(gs)

-----------------------------------------------------------------------------
(* Properties of the rounds of a game *)

NoBidYet(g) == \A i \in 1..NumPlayers(g) : IsNone(g.players[i].bid)
NoCardYet(g) == g.current_trick = 1 /\ g.current_trick_cards = << >>

Hands(g) == [i \in 1..NumPlayers(g) |-> g.players[i].hand]

\* C22: with n seats (2 to 6), start_next_round after the scoring of round r
\* deals r + 1 cards to every seat and opens the bidding when r < 60 div n,
\* and sets GAME_OVER without dealing when r = 60 div n; outside GAME_OVER
\* the round number never exceeds 60 div n.
C22_LastRound ==
    /\ [](gs.phase # GAME_OVER => gs.current_round <= DeckSize \div NumPlayers(gs))
    /\ [][(lastOp'[1] = "start_next_round" /\ gs.phase = ROUND_COMPLETE) =>
           LET n == NumPlayers(gs)
               r == gs.current_round
           IN /\ gs'.current_round = r + 1
              /\ r < DeckSize \div n =>
                    /\ gs'.phase = BIDDING
                    /\ \A i \in 1..n : Len(gs'.players[i].hand) = r + 1
                    /\ Len(gs'.deck) = DeckSize - n * (r + 1) - Len(gs'.trump_card)
              /\ r = DeckSize \div n =>
                    /\ gs'.phase = GAME_OVER
                    /\ Hands(gs') = Hands(gs)
                    /\ gs'.deck = gs.deck
                    /\ gs'.trump_card = gs.trump_card
                    /\ gs'.trump_suit = gs.trump_suit]_vars

\* C22 witness: four players have scored round 15 and start_next_round has
\* ended the game.
C22_Witness ==
    /\ lastOp[1] = "start_next_round"
    /\ NumPlayers(gs) = 4 /\ max_rounds(gs) = 15
    /\ gs.current_round = 16 /\ gs.phase = GAME_OVER

Scores(g) == [i \in 1..NumPlayers(g) |-> g.players[i].score]

\* C23: GAME_OVER is terminal: once the phase is GAME_OVER no call of
\* place_bid, play_card, choose_trump, start_next_trick, start_next_round,
\* join_game, rejoin_game or leave_game, in any order, changes the phase or
\* the cumulative score of any player.
C23_GameOverTerminal ==
    [][gs.phase = GAME_OVER =>
         (gs'.phase = GAME_OVER /\ Scores(gs') = Scores(gs))]_vars

-----------------------------------------------------------------------------
(* Properties of the seats *)

\* C24: join_game returns the state unchanged when the phase is not
\* WAITING_FOR_PLAYERS, when six players are seated, or when the identifier
\* is seated; otherwise it appends exactly one new seat at the end of the
\* seating order and leaves the seats before it as they were.
C24_JoinSeats ==
    [][lastOp'[1] = "join_game" =>
       LET n == NumPlayers(gs)
           pid == lastOp'[2]
       IN IF \/ gs.phase # WAITING_FOR_PLAYERS
             \/ n >= 6
             \/ pid \in SeatedIds(gs)
          THEN gs' = gs
          ELSE /\ NumPlayers(gs') = n + 1
               /\ SubSeq(gs'.players, 1, n) = gs.players
               /\ gs'.players[n + 1] =
                     [player_id |-> pid, name |-> lastOp'[3], hand |-> << >>,
                      bid |-> None, tricks_won |-> 0, score |-> 0,
                      is_ready |-> FALSE, is_connected |-> TRUE]
               /\ gs'.phase = gs.phase /\ gs'.host_id = gs.host_id]_vars

\* C24 witness: six players are seated and waiting, a seventh identifier has
\* called join_game, and the seats are still those six.
C24_Witness ==
    /\ lastOp[1] = "join_game" /\ lastOp[2] \notin SeatedIds(gs)
    /\ gs.phase = WAITING_FOR_PLAYERS
    /\ NumPlayers(gs) = 6

\* C25: leave_game removes and reorders no seat: the seats are those before
\* the call, with the leaver's hand, bid, tricks_won and score, and only the
\* leaver's is_connected has become false; the current player index and the
\* dealer index are unchanged and name the same seats.
C25_LeaveKeepsSeats ==
    [][lastOp'[1] = "leave_game" =>
       LET i == Seat(gs, lastOp'[2])
       IN /\ i = 0 => gs'.players = gs.players
          /\ i # 0 => gs'.players = [gs.players EXCEPT ![i].is_connected = FALSE]
          /\ gs'.current_player_index = gs.current_player_index
          /\ gs'.dealer_index = gs.dealer_index]_vars

\* C25 witness: in round 2 the player whose turn it is to play, who holds
\* cards, has bid and has a score from round 1, has left and keeps the seat.
C25_Witness ==
    /\ lastOp[1] = "leave_game"
    /\ gs.phase = PLAYING /\ gs.current_round = 2
    /\ lastOp[2] = current_player(gs).player_id
    /\ ~current_player(gs).is_connected
    /\ current_player(gs).hand # << >>
    /\ IsSome(current_player(gs).bid)
    /\ current_player(gs).score # 0

ConnectedOthers(g, pid) ==
    {j \in 1..NumPlayers(g) : g.players[j].is_connected /\ g.players[j].player_id # pid}

\* C26: when the host leaves, host_id becomes the identifier of the first
\* seat in seating order that is still connected, the leaver apart; when no
\* other seat is connected host_id is left unset, naming no seat; when a
\* player who is not the host leaves, host_id is unchanged.
C26_HostTransfer ==
    [][(lastOp'[1] = "leave_game" /\ Seat(gs, lastOp'[2]) # 0) =>
       LET pid == lastOp'[2]
           others == ConnectedOthers(gs, pid)
       IN /\ gs.host_id # pid => gs'.host_id = gs.host_id
          /\ (gs.host_id = pid /\ others # {}) =>
                gs'.host_id = gs.players[FirstOf(others)].player_id
          /\ (gs.host_id = pid /\ others = {}) =>
                gs'.host_id \notin SeatedIds(gs')]_vars

\* A state without its last_updated.
Unstamped(g) == [g EXCEPT !.last_updated = 0]

\* C27: rejoin_game with an identifier that occupies a seat succeeds, marks
\* that seat connected and sets its name, and changes no identifier, host,
\* hand, bid or score; the same call made again succeeds and returns the
\* same state, last_updated apart.
C27_RejoinSeated ==
    [][(lastOp'[1] = "rejoin_game" /\ Seat(gs, lastOp'[2]) # 0) =>
       LET i == Seat(gs, lastOp'[2])
           again == rejoin_game(gs', lastOp'[2], lastOp'[3])
       IN /\ lastOp'[4] = TRUE
          /\ gs'.players = [gs.players EXCEPT ![i].is_connected = TRUE,
                                              ![i].name = lastOp'[3]]
          /\ gs'.host_id = gs.host_id
          /\ again[2] = TRUE
          /\ Unstamped(again[1]) = Unstamped(gs')]_vars

\* C27 witness: a seated player who had left has rejoined under another
\* name: the seat is connected again, carries the new name, and still holds
\* its cards.
C27_Witness ==
    /\ lastOp[1] = "rejoin_game" /\ lastOp[4] = TRUE
    /\ Seat(gs, lastOp[2]) # 0
    /\ lastOp[2] \in {IdList[k] : k \in 1..Len(IdList)}
    /\ gs.players[Seat(gs, lastOp[2])].name = lastOp[3]
    /\ lastOp[3] \notin {NameList[k] : k \in 1..Len(NameList)}
    /\ gs.players[Seat(gs, lastOp[2])].is_connected
    /\ gs.players[Seat(gs, lastOp[2])].hand # << >>
    /\ gs.message[1] = "has left the game!"

NameHits(g, nm) == {j \in 1..NumPlayers(g) : Lower(g.players[j].name) = Lower(nm)}

\* C28: rejoin_game with an identifier that occupies no seat: if the name of
\* some seat is the given name up to case, the first such seat in seating
\* order, and no other, gets the new identifier and is marked connected, and
\* host_id follows when that seat was the host's; if no seat matches, the
\* call fails and the state is unchanged.
C28_RejoinByName ==
    [][(lastOp'[1] = "rejoin_game" /\ Seat(gs, lastOp'[2]) = 0) =>
       LET pid == lastOp'[2]
           hits == NameHits(gs, lastOp'[3])
       IN /\ hits # {} =>
               LET j == FirstOf(hits)
               IN /\ lastOp'[4] = TRUE
                  /\ gs'.players = [gs.players EXCEPT ![j].player_id = pid,
                                                      ![j].is_connected = TRUE]
                  /\ gs'.host_id = IF gs.host_id = gs.players[j].player_id
                                   THEN pid ELSE gs.host_id
          /\ hits = {} => (lastOp'[4] = FALSE /\ gs' = gs)]_vars

\* C28 witness: two seats carry the name "ann" up to case; a new identifier
\* has rejoined as "ann" and has the first of them, the host's, and is host.
C28_Witness ==
    /\ lastOp[1] = "rejoin_game" /\ lastOp[3] = "ann" /\ lastOp[4] = TRUE
    /\ NumPlayers(gs) >= 2
    /\ gs.players[1].name = "Ann" /\ gs.players[1].player_id = lastOp[2]
    /\ lastOp[2] \notin {IdList[k] : k \in 1..Len(IdList)}
    /\ gs.host_id = lastOp[2]
    /\ gs.players[2].name = "ann" /\ gs.players[2].player_id = IdList[2]

-----------------------------------------------------------------------------
(* Properties of the stored state *)

\* C29: a GameState in any phase, with or without trump card, trump suit,
\* lead suit, trick cards, trick winner, deck and chat messages, is equal in
\* every field to from_dict of its to_dict: hands, bids (0 apart from unset),
\* tricks_won, scores and connected flags included.
C29_SnapshotRoundTrip == from_dict(to_dict(gs)) = gs

\* C29 witness: a state in the middle of a trick with a trump card and suit,
\* a lead suit, a bid of 0 next to other bids, a disconnected seat, a chat
\* message and cards left in the deck.
C29_Witness ==
    /\ gs.phase = PLAYING
    /\ IsSome(gs.trump_card) /\ IsSome(gs.trump_suit) /\ IsSome(gs.lead_suit)
    /\ gs.current_trick_cards # << >> /\ gs.deck # << >>
    /\ gs.chat_messages # << >>
    /\ \E i, j \in 1..NumPlayers(gs) :
          /\ gs.players[i].bid = Some(0) /\ gs.players[i].hand # << >>
          /\ gs.players[j].bid = Some(1)
    /\ \E i \in 1..NumPlayers(gs) : ~gs.players[i].is_connected

\* The stored state shows what session c saved: the leaver's seat is
\* disconnected, the bidder's seat carries the bid.
Stored(c) ==
    LET i == Seat(gs, c)
    IN /\ sessions[c].op[1] = "leave_game" => ~gs.players[i].is_connected
       /\ sessions[c].op[1] = "place_bid" => gs.players[i].bid = Some(sessions[c].op[2])

\* C30: no update of a game is lost: when sessions have each loaded the
\* game, applied one engine function and saved, their steps interleaved in
\* any order, the stored state shows the effect of every one of them.
C30_NoLostUpdate ==
    (\A c \in DOMAIN sessions : sessions[c].pc \in {"idle", "saved"}) =>
        \A c \in DOMAIN sessions : sessions[c].pc = "saved" => Stored(c)

-----------------------------------------------------------------------------
(* Properties of the turn *)

\* The seat, counted from 0, of the k-th card of the trick: the trick was
\* led as many seats before the current one as it holds cards, and a
\* complete trick by the seat after the current one.
TrickSeat(g, k) ==
    LET n == NumPlayers(g)
        len == Len(g.current_trick_cards)
        first == IF g.phase = TRICK_COMPLETE
                 THEN (g.current_player_index + 1) % n
                 ELSE (g.current_player_index + n - (len % n)) % n
    IN (first + k - 1) % n

\* C31: in BIDDING and PLAYING current_player_index is the index of a seat,
\* and of one that has not acted yet: the seat has no bid in BIDDING, and no
\* card in the trick in PLAYING; the cards of a trick are those of
\* consecutive seats in seating order, one each, up to the seat before the
\* current one.
C31_CurrentPlayerFresh ==
    /\ gs.phase \in {BIDDING, PLAYING} =>
          /\ gs.current_player_index \in 0..(NumPlayers(gs) - 1)
          /\ gs.phase = BIDDING => IsNone(current_player(gs).bid)
          /\ gs.phase = PLAYING =>
                \A k \in 1..Len(gs.current_trick_cards) :
                    gs.current_trick_cards[k].player_id # current_player(gs).player_id
    /\ gs.phase \in {PLAYING, TRICK_COMPLETE} =>
          /\ Len(gs.current_trick_cards) <= NumPlayers(gs)
          /\ \A k \in 1..Len(gs.current_trick_cards) :
                gs.current_trick_cards[k].player_id = PlayerAt(gs, TrickSeat(gs, k)).player_id

\* C31 witness: the second trick of the second round of three players, led
\* by the first seat, which did not lead the first trick; two cards are
\* played and the turn is at the third seat.
C31_Witness ==
    /\ gs.phase = PLAYING /\ NumPlayers(gs) = 3
    /\ gs.current_trick = 2 /\ gs.dealer_index = 1
    /\ Len(gs.current_trick_cards) = 2
    /\ gs.current_trick_cards[1].player_id = IdList[1]
    /\ gs.current_trick_cards[2].player_id = IdList[2]
    /\ gs.current_player_index = 2

-----------------------------------------------------------------------------
(* Properties of the legal cards *)

\* The lead suits there are: none, and each of the four suits.
LeadSuits == {None} \cup {Some(OrdinarySuits[k]) : k \in 1..Len(OrdinarySuits)}

CardsOf(hand) == {hand[k] : k \in 1..Len(hand)}

\* C32: get_valid_cards of a hand: with no lead suit it is the hand; with a
\* lead suit of which the hand holds a card it is the hand's cards of that
\* suit and its Wizards and Jesters, each as often as the hand holds it, and
\* nothing else; with a lead suit of which the hand holds no card it is the
\* hand.  It holds no card more often than the hand does, and it is not
\* empty unless the hand is.
C32_LegalPlays ==
    \A i \in 1..NumPlayers(gs) : \A lead \in LeadSuits :
        LET hand == gs.players[i].hand
            valid == get_valid_cards(gs.players[i], lead)
            follows == \E c \in CardsOf(hand) : IsSome(lead) /\ c.suit = Val(lead)
        IN /\ IsNone(lead) => valid = hand
           /\ (IsSome(lead) /\ follows) =>
                 \A c \in CardsOf(hand) \cup CardsOf(valid) :
                     Count(valid, c) = IF c.suit = Val(lead) \/ IsSpecial(c)
                                       THEN Count(hand, c) ELSE 0
           /\ (IsSome(lead) /\ ~follows) => valid = hand
           /\ \A c \in CardsOf(valid) : Count(valid, c) <= Count(hand, c)
           /\ hand # << >> => valid # << >>

\* C32 witness: hearts are led, and the player to follow holds a heart, a
\* Wizard and a diamond: the heart and the Wizard are legal.
C32_Witness ==
    /\ gs.phase = PLAYING /\ Len(gs.current_trick_cards) = 1
    /\ gs.lead_suit = Some(HEARTS)
    /\ \E c \in CardsOf(current_player(gs).hand) : c.suit = HEARTS
    /\ \E c \in CardsOf(current_player(gs).hand) : c.suit = WIZARD
    /\ \E c \in CardsOf(current_player(gs).hand) : c.suit = DIAMONDS
    /\ Len(current_player(gs).hand) = 3
    /\ Len(get_valid_cards(current_player(gs), gs.lead_suit)) = 2

-----------------------------------------------------------------------------
(* Properties of the deck *)

\* The cards of a suit in a deck.
OfSuit(deck, s) == {i \in 1..Len(deck) : deck[i].suit = s}

\* C33: create_deck returns 60 cards: 4 Wizards of rank 14, 4 Jesters of
\* rank 0, and one card of each of the four suits and each rank 1..13; the
\* shuffled deck of a deal holds 60 cards and every card as often as
\* create_deck does.
C33_DeckAndShuffle ==
    /\ Len(create_deck) = 60
    /\ Cardinality(OfSuit(create_deck, WIZARD)) = 4
    /\ Count(create_deck, Card(WIZARD, 14)) = 4
    /\ Cardinality(OfSuit(create_deck, JESTER)) = 4
    /\ Count(create_deck, Card(JESTER, 0)) = 4
    /\ \A s \in {HEARTS, DIAMONDS, CLUBS, SPADES} :
          /\ Cardinality(OfSuit(create_deck, s)) = 13
          /\ \A v \in 1..13 : Count(create_deck, Card(s, v)) = 1
    /\ IsDeal(lastOp) =>
          LET shuffled == shuffle_deck(create_deck, lastOp[2])
          IN /\ Len(shuffled) = 60
             /\ \A c \in CardsOf(create_deck) \cup CardsOf(shuffled) :
                   Count(shuffled, c) = Count(create_deck, c)

\* C33 witness: six players are dealt the tenth round from a deck shuffled
\* out of the order of create_deck: the sixty cards are in the hands.
C33_Witness ==
    /\ IsDeal(lastOp) /\ lastOp[2] = <<StrideList[2], 7>>
    /\ shuffle_deck(create_deck, lastOp[2]) # create_deck
    /\ NumPlayers(gs) = 6 /\ gs.current_round = 10 /\ gs.phase = BIDDING
    /\ gs.deck = << >>
    /\ \A c \in CardsOf(create_deck) : Count(AllHands(gs, 1), c) = Count(create_deck, c)

-----------------------------------------------------------------------------
(* Properties of the lead suit *)

\* The positions of the trick's cards that are neither Wizard nor Jester.
SuitCards(g) ==
    {k \in 1..Len(g.current_trick_cards) : ~IsSpecial(g.current_trick_cards[k].card)}

\* C34: in PLAYING and TRICK_COMPLETE the lead suit is the suit of the first
\* card of the trick that is neither Wizard nor Jester, and is unset when the
\* trick holds no such card; a play_card call in a trick whose lead suit is
\* set leaves the lead suit as it is.
C34_LeadSuit ==
    /\ [](gs.phase \in {PLAYING, TRICK_COMPLETE} =>
            gs.lead_suit = IF SuitCards(gs) = {} THEN None
                           ELSE Some(gs.current_trick_cards[FirstOf(SuitCards(gs))].card.suit))
    /\ [][(lastOp'[1] = "play_card" /\ gs.phase = PLAYING /\ IsSome(gs.lead_suit)) =>
             gs'.lead_suit = gs.lead_suit]_vars

\* C34 witness: the second trick of a round: a Jester was led and a heart
\* followed, and hearts are the lead suit of the complete trick.
C34_Witness ==
    /\ gs.phase = TRICK_COMPLETE /\ gs.current_trick = 2
    /\ Len(gs.current_trick_cards) = 2
    /\ gs.current_trick_cards[1].card.suit = JESTER
    /\ gs.current_trick_cards[2].card.suit = HEARTS
    /\ gs.lead_suit = Some(HEARTS)
    /\ lastOp[1] = "play_card"

-----------------------------------------------------------------------------
(* Properties of scoring *)

\* C35: the scores of a round are applied once: a call changes a cumulative
\* score only if it is the start_next_trick call that takes the phase from
\* TRICK_COMPLETE to ROUND_COMPLETE; a start_next_trick call made in
\* ROUND_COMPLETE changes no score.
C35_ScoredOnce ==
    [][Scores(gs') # Scores(gs) =>
         (lastOp'[1] = "start_next_trick" /\ gs.phase = TRICK_COMPLETE
          /\ gs'.phase = ROUND_COMPLETE)]_vars

-----------------------------------------------------------------------------
(* Properties of the identifiers in a trick *)

\* C36: whatever rejoin_game and play_card calls interleave, every
\* identifier in the cards of the trick in progress, and the identifier in
\* trick_winner of a complete trick, is the identifier of a seat.
C36_TrickIdsSeated ==
    /\ gs.phase \in {PLAYING, TRICK_COMPLETE} =>
          \A k \in 1..Len(gs.current_trick_cards) :
              gs.current_trick_cards[k].player_id \in SeatedIds(gs)
    /\ gs.phase = TRICK_COMPLETE =>
          (IsSome(gs.trick_winner) /\ Val(gs.trick_winner) \in SeatedIds(gs))

-----------------------------------------------------------------------------
(* Properties of the play of a round *)

\* The cards a seat has played in the round: one in each earlier trick, and
\* one in the current trick if it holds a card of the seat.
PlayedThisRound(g, i) ==
    (g.current_trick - 1)
    + (IF \E k \in 1..Len(g.current_trick_cards) :
             g.current_trick_cards[k].player_id = g.players[i].player_id
       THEN 1 ELSE 0)

\* C37: while a dealt round is played with valid cards, the hand of every
\* player holds cards_this_round cards less the cards the player has played
\* in the round, and the player whose turn it is holds a card.
C37_HandSizes ==
    /\ gs.phase \in {PLAYING, TRICK_COMPLETE} =>
          \A i \in 1..NumPlayers(gs) :
              Len(gs.players[i].hand) = cards_this_round(gs) - PlayedThisRound(gs, i)
    /\ gs.phase = PLAYING => current_player(gs).hand # << >>

-----------------------------------------------------------------------------
(* Properties of the identifiers of the seats *)

\* C38: after any calls of create_new_game, join_game, rejoin_game and
\* leave_game no two seats have the same player_id and there are at most 6
\* seats; get_player of the identifier of a seat is that seat.
C38_SeatIdsUnique ==
    /\ NumPlayers(gs) <= 6
    /\ \A i, j \in 1..NumPlayers(gs) :
          gs.players[i].player_id = gs.players[j].player_id => i = j
    /\ \A i \in 1..NumPlayers(gs) : get_player(gs, gs.players[i].player_id) = i

\* C38 witness: six seats; a seat that was left has been taken over by name
\* under a new identifier, and the identifier that held it names no seat.
C38_Witness ==
    /\ NumPlayers(gs) = 6
    /\ lastOp[1] = "rejoin_game" /\ lastOp[4] = TRUE
    /\ lastOp[2] \notin {IdList[k] : k \in 1..Len(IdList)}
    /\ Seat(gs, lastOp[2]) # 0
    /\ \E k \in 1..Len(IdList) : Seat(gs, IdList[k]) = 0

-----------------------------------------------------------------------------
(* Properties of the seat of a connected player *)

\* C39: rejoin_game with an identifier that has no seat gives the identifier
\* a seat only if that seat is marked disconnected: every seat that is
\* connected keeps its identifier.
C39_ConnectedKeepsSeat ==
    [][(lastOp'[1] = "rejoin_game" /\ Seat(gs, lastOp'[2]) = 0) =>
         \A j \in 1..NumPlayers(gs) :
             gs.players[j].is_connected =>
                 gs'.players[j].player_id = gs.players[j].player_id]_vars

-----------------------------------------------------------------------------
(* Properties of the file of the local store *)

\* C40: save_game calls for two games on the local store, their reads and
\* writes of the file interleaved in any order, persist both games: when
\* both calls have returned, load_game of each game returns the state that
\* was saved for it.
C40_BothPersisted ==
    (\A c \in DOMAIN sessions : sessions[c].pc = "done") =>
        \A c \in DOMAIN sessions : file_load_game(store, c) = Some(sessions[c].game_state)

====
